---- MODULE Spec2Model ----
(***************************************************************************)
(* A model of the lsystems crate: the grammar rewriting engine             *)
(* (src/src/lsystem.rs), the Alphabet construction (src/src/grammar.rs),   *)
(* the parameter-expression parser (src/src/parser.rs) and the turtle      *)
(* interpreter (src/src/turtle_graphics.rs, src/src/default_actions.rs).   *)
(*                                                                         *)
(* A Rust char is modelled as a one-character string, a String or a        *)
(* Vec<char> as a sequence of chars.  The code indexes from 0; the model   *)
(* keeps the code's 0-based indices and reads chars[i] as symbols[i + 1].  *)
(* A Rust panic is an outcome of its own: an operator that can panic       *)
(* returns a record with a `panic` field.                                  *)
(***************************************************************************)
EXTENDS Integers, Sequences, FiniteSets, TLC

VARIABLES
    \* ---- LSystem (lsystem.rs:104-114)
    axiom,                          \* String
    stochastic_rules,               \* HashMap<char, StochasticProductionRule>
    generic_stochastic_rules,       \* HashMap<String, GenericStochasticProductionRule>
    context_sensitive_rules,        \* HashMap<char, ContextSensitiveProductionRule>
    parametric_production_rules,    \* HashMap<char, ParametricProductionRule>
    alphabet_definer,               \* A: SymbolDefiner
    generated,                      \* what the last call of generate did
    \* ---- a call of Alphabet::from_string (grammar.rs:46-61)
    string_arg,                \* String
    generations_arg,           \* u8
    definition_arg,            \* &A
    new_alphabet,                   \* the Alphabet returned, or the panic
    \* ---- a call of parse_module_parameters (parser.rs:329-367)
    lexed_tokens,                   \* LexedTokens.tokens
    module_parameters,              \* the Vec<ActionParam> returned, or the panic
    \* ---- an ExecuteContext (lsystem.rs:462-469) on which actions are executed
    turtle,                         \* ExecuteContext.turtle
    transform_stack,                \* ExecuteContext.transform_stack.transforms
    aborted,                        \* a panic has ended the run
    trace,                          \* history: the actions executed, with the
                                    \* turtle and the stack depth they found
    \* ---- a call of LSystem::run (lsystem.rs:131-164)
    action_rules,                   \* LSystem.action_rules: Vec<(String, Action)>
    resolver,                       \* the resolver handed to run
    registered,                     \* history: the calls of add_action_resolver
    alphabet_arg,                   \* the symbols of the &Alphabet
    run_index,                      \* the tokens the loop has gone through
    run_context,                    \* the ExecuteContext of the run
    run_panic,                      \* a panic has ended the run
    executed,                       \* history: the position and the action of
                                    \* every call of execute
    \* ---- a script on its way through Lexer::lex and parse
    script_parts,                   \* how the script was put together
    script_arg,                     \* the String handed to Lexer::lex
    lex_result,                     \* the Vec<Token> returned, or the panic
    parse_result,                   \* the Item returned by parse, or the panic
    \* ---- an LSystem built from a parsed Item, and one built by hand
    parser_lsystem,                 \* the LSystem of LSystemParser::parse, its last generate
    builder_lsystem,                \* the LSystem built with add_stochastic_rule, its last generate
    \* ---- runs of an LSystem whose actions take Random parameters
    rng,                            \* the state of the generator perchance::global() hands out
    random_rules,                   \* LSystem.action_rules of the runs
    random_alphabet,                \* the symbols of the &Alphabet of the runs
    random_runs,                    \* history: the values drawn and the context returned by every run
    \* ---- apply_rules_recursive step by step (lsystem.rs:204-296)
    scan_rules,                     \* the four rule tables handed down the calls
    scan_axiom,                     \* the symbols of the first call
    scan_generations,               \* generations of LSystem::generate
    call_stack,                     \* the calls of apply_rules_recursive in progress, the innermost last
    string_result,                  \* the String all calls append to
    scan_status,                    \* running, returned or panic
    \* ---- LSystemFactory (lsystem.rs:415-460)
    lsystems_alphabets,             \* HashMap<LSystemKey, Alphabet>
    lsystems_meshes,                \* HashMap<LSystemKey, Vec<T>>
    factory_calls                   \* the calls made on the factory and what they returned

lsysVars == <<axiom, stochastic_rules, generic_stochastic_rules,
              context_sensitive_rules, parametric_production_rules,
              alphabet_definer, generated>>

alphaVars == <<string_arg, generations_arg, definition_arg, new_alphabet>>

paramVars == <<lexed_tokens, module_parameters>>

turtleVars == <<turtle, transform_stack, aborted, trace>>

runVars == <<action_rules, resolver, registered, alphabet_arg, run_index,
             run_context, run_panic, executed>>

scriptVars == <<script_parts, script_arg, lex_result, parse_result>>

buildVars == <<parser_lsystem, builder_lsystem>>

randomVars == <<rng, random_rules, random_alphabet, random_runs>>

scanVars == <<scan_rules, scan_axiom, scan_generations, call_stack, string_result, scan_status>>

factoryVars == <<lsystems_alphabets, lsystems_meshes, factory_calls>>

vars == <<lsysVars, alphaVars, paramVars, turtleVars, runVars, scriptVars, buildVars, randomVars, scanVars, factoryVars>>

\* what an operation on one of them leaves alone
exceptLSystem == <<alphaVars, paramVars, turtleVars, runVars, scriptVars, buildVars, randomVars, scanVars, factoryVars>>
exceptAlphabet == <<lsysVars, paramVars, turtleVars, runVars, scriptVars, buildVars, randomVars, scanVars, factoryVars>>
exceptParams == <<lsysVars, alphaVars, turtleVars, runVars, scriptVars, buildVars, randomVars, scanVars, factoryVars>>
exceptTurtle == <<lsysVars, alphaVars, paramVars, runVars, scriptVars, buildVars, randomVars, scanVars, factoryVars>>
exceptRun == <<lsysVars, alphaVars, paramVars, turtleVars, scriptVars, buildVars, randomVars, scanVars, factoryVars>>
exceptScript == <<lsysVars, alphaVars, paramVars, turtleVars, runVars, buildVars, randomVars, scanVars, factoryVars>>
exceptBuild == <<lsysVars, alphaVars, paramVars, turtleVars, runVars, scriptVars, randomVars, scanVars, factoryVars>>
exceptRandom == <<lsysVars, alphaVars, paramVars, turtleVars, runVars, scriptVars, buildVars, scanVars, factoryVars>>
exceptScan == <<lsysVars, alphaVars, paramVars, turtleVars, runVars, scriptVars, buildVars, randomVars, factoryVars>>
exceptFactory == <<lsysVars, alphaVars, paramVars, turtleVars, runVars, scriptVars, buildVars, randomVars, scanVars>>

----------------------------------------------------------------------------
(* Bounds of the model.                                                    *)

\* generate is called with generations in 0..MaxGen
MaxGen == 2
\* the strings handed to Alphabet::from_string have at most MaxStringLen chars
MaxStringLen == 2
\* a parameter expression has at most MaxOperands operands
MaxOperands == 3
\* at most MaxSteps actions are executed on an ExecuteContext
MaxSteps == 4
\* at most MaxRules rules are registered in one LSystem
MaxRules == 3
\* axioms without a parametric module have at most MaxAxiomLen characters
MaxAxiomLen == 3
\* a parametric module of an axiom carries at most MaxArgs arguments
MaxArgs == 2
\* run is called with alphabets of at most MaxAlphabetLen symbols
MaxAlphabetLen == 3
\* at most MaxResolvers calls of add_action_resolver fill an ActionResolver
MaxResolvers == 2
\* a script made of parts has at most MaxStatements statements
MaxStatements == 2
\* a short script has at most MaxScriptLen characters
MaxScriptLen == 3
\* at most MaxCalls calls are made on an LSystemFactory
MaxCalls == 3

----------------------------------------------------------------------------
(* Generic helpers: maps as functions, sequences.                          *)

EmptyMap == [k \in {} |-> <<>>]

\* HashMap::insert: a later insert under the same key overwrites.
MapInsert(m, k, v) == [y \in (DOMAIN m) \cup {k} |-> IF y = k THEN v ELSE m[y]]

SeqsUpTo(S, n) == UNION {[1..k -> S] : k \in 0..n}

RECURSIVE Flatten(_)
Flatten(ss) == IF ss = <<>> THEN <<>> ELSE Head(ss) \o Flatten(Tail(ss))

----------------------------------------------------------------------------
(* grammar.rs: Symbol, SymbolDefiner, Alphabet.                            *)

UpperCase == {"A", "B", "C", "D", "E", "F", "G", "H", "I", "J", "K", "L", "M",
              "N", "O", "P", "Q", "R", "S", "T", "U", "V", "W", "X", "Y", "Z"}

\* The char U+2227 (logical and) is written "U+2227".
DefaultVariables == UpperCase \cup {"f", "0", "1"}
DefaultConstants == {"U+2227", "\\", "/", "|", "&", "+", "-", "[", "]"}

\* DefaultAlphabetSymbolDefiner::into_symbol (grammar.rs:99-111) and the
\* definer of the tests, DefaultAlphabet::into_symbol (tests/lsystem.rs:11-32).
\* kind "panic" is the arm  _ => panic!("Non supported char").
into_symbol(definer, char) ==
    IF definer = "DefaultAlphabetSymbolDefiner"
    THEN IF char \in UpperCase \cup {"f"} THEN [kind |-> "Variable", char |-> char]
         ELSE IF char \in {"0", "1"} THEN [kind |-> "Variable", char |-> char]
         ELSE IF char \in {"U+2227", "\\", "/", "|", "&", "+", "-", "[", "]"}
              THEN [kind |-> "Constant", char |-> char]
         ELSE [kind |-> "panic", char |-> char]
    ELSE \* "DefaultAlphabet", the definer of tests/lsystem.rs
         IF char \in {"F", "G", "X", "0", "1"} THEN [kind |-> "Variable", char |-> char]
         ELSE IF char \in {"+", "-", "A", "B", "[", "]", "(", ")", ","}
              THEN [kind |-> "Constant", char |-> char]
         ELSE IF char = "a" THEN [kind |-> "Module", char |-> char]
         ELSE [kind |-> "panic", char |-> char]

\* from_string leaving out the chars the definer does not map.
RECURSIVE MappedLetters(_, _)
MappedLetters(alphabet_string, definer) ==
    IF alphabet_string = <<>> THEN <<>>
    ELSE LET letter == into_symbol(definer, Head(alphabet_string))
         IN  (IF letter.kind = "panic" THEN <<>> ELSE <<letter>>)
             \o MappedLetters(Tail(alphabet_string), definer)

from_string_skipping(alphabet_string, generations, definer) ==
    [panic |-> FALSE, symbols |-> MappedLetters(alphabet_string, definer),
     generation |-> generations]

\* Alphabet::from_string (grammar.rs:46-61): every char is mapped, in order,
\* and pushed; the first unmapped char panics.
from_string(alphabet_string, generations, definer) ==
    LET letters == [i \in 1..Len(alphabet_string) |->
                        into_symbol(definer, alphabet_string[i])]
    IN  IF \E i \in 1..Len(alphabet_string) : letters[i].kind = "panic"
        THEN [panic |-> TRUE, symbols |-> <<>>, generation |-> generations]
        ELSE [panic |-> FALSE, symbols |-> letters, generation |-> generations]

\* Alphabet::to_string (grammar.rs:63-75): the char of every symbol.
to_string(alphabet) == [i \in 1..Len(alphabet.symbols) |-> alphabet.symbols[i].char]

----------------------------------------------------------------------------
(* lsystem.rs: the production rules.                                       *)

None == [some |-> FALSE]
Some(v) == [some |-> TRUE, value |-> v]

\* StochasticProductionRule::apply with the comparison inverted.
StochasticApplyInverted(rule, symbols) ==
    IF symbols # rule.predecessor THEN Some(rule.successor) ELSE None

\* StochasticProductionRule::apply (lsystem.rs:28-34)
StochasticApply(rule, symbols) ==
    IF symbols = rule.predecessor THEN Some(rule.successor) ELSE None

\* GenericStochasticProductionRule::apply (lsystem.rs:51-57)
GenericApply(rule, symbols) ==
    IF symbols = rule.predecessor THEN Some(rule.successor) ELSE None

\* The context sensitive callbacks (fn(char, usize, &[char]) -> Option<&str>)
\* the model registers.  "between_B_and_C" is the closure of the test
\* context_sensitive_rule (tests/lsystem.rs:63-69):
\*     chars[index - 1] == 'B' && chars[index + 1] == 'C' && symbol == 'A'
\* index - 1 panics for index = 0 (usize underflow, or the index out of
\* bounds it wraps to), chars[index + 1] panics past the end, and && is
\* short-circuit.  The result is [panic, result].
ContextSensitiveApply(rule_cb, symbol, index, chars) ==
    IF rule_cb = "between_B_and_C"
    THEN IF index = 0 THEN [panic |-> TRUE, result |-> None]
         ELSE IF chars[index] # "B" THEN [panic |-> FALSE, result |-> None]
         ELSE IF index + 1 > Len(chars) - 1 THEN [panic |-> TRUE, result |-> None]
         ELSE IF chars[index + 2] = "C" /\ symbol = "A"
              THEN [panic |-> FALSE, result |-> Some(<<"A", "A">>)]
              ELSE [panic |-> FALSE, result |-> None]
    ELSE [panic |-> FALSE, result |-> None]

\* The parametric callbacks (fn(char, &[char]) -> Option<&str>).  "successor"
\* is the closure of the test parametic_rule (tests/lsystem.rs:51), which
\* returns Some("a(0+1,0+1,0+1)") whatever it is given.
ParametricApply(rule_cb, symbol, params) ==
    IF rule_cb = "successor"
    THEN Some(<<"a", "(", "0", "+", "1", ",", "0", "+", "1", ",", "0", "+", "1", ")">>)
    ELSE None

----------------------------------------------------------------------------
(* lsystem.rs: generate and apply_rules_recursive.                         *)
(*                                                                         *)
(* The engine returns [panic, out, log]: whether it panicked, the text it  *)
(* appended to string_result, and one record per rule lookup it made, in   *)
(* the order it made them (the log is not in the code: it records what the *)
(* code did, so that properties of the scan can be stated).                *)

Ok(out, log) == [panic |-> FALSE, out |-> out, log |-> log]
Panic(log) == [panic |-> TRUE, out |-> <<>>, log |-> log]

\* r1 happened, then r2: a panic ends the call.
Then(r1, r2) ==
    IF r1.panic THEN r1
    ELSE [panic |-> r2.panic, out |-> r1.out \o r2.out, log |-> r1.log \o r2.log]

\* A log record: the kind of lookup, the `symbol` it was made for, the value
\* of symbol_index and the buffer at that moment, the arguments collected
\* (parametric), whether a callback was invoked, whether a rule produced a
\* successor, whether the callback panicked, and the text this turn of the
\* loop appended to string_result.
Event(kind, symbol, index, chars, generations_left, args, invoked, matched, panicked, emitted) ==
    [kind |-> kind, symbol |-> symbol, index |-> index, chars |-> chars,
     generations_left |-> generations_left, args |-> args, invoked |-> invoked,
     matched |-> matched, panicked |-> panicked, emitted |-> emitted]

\* LSystem::recursively_iterate_params (lsystem.rs:189-202), one turn of its
\* loop: symbol_index is advanced BEFORE the char is read, and symbols[..]
\* panics past the end.  Returns [panic, params, symbol_index].
RECURSIVE recursively_iterate_params(_, _, _)
recursively_iterate_params(symbols, symbol_index, params) ==
    LET index == symbol_index + 1
    IN  IF index > Len(symbols) - 1
        THEN [panic |-> TRUE, params |-> params, symbol_index |-> index]
        ELSE LET current_symbol == symbols[index + 1]
             IN  IF current_symbol = ")"
                 THEN [panic |-> FALSE, params |-> params, symbol_index |-> index + 1]
                 ELSE IF current_symbol # ","
                 THEN recursively_iterate_params(symbols, index, Append(params, current_symbol))
                 ELSE recursively_iterate_params(symbols, index, params)

RECURSIVE apply_rules_recursive(_, _, _)
RECURSIVE ScanLoop(_, _, _, _)
RECURSIVE RewriteSymbol(_, _, _, _, _)

\* the lookup giving a rule whose predecessor starts with the symbol
generic_rules_get_by_prefix(generic_rules, symbol) ==
    LET starting == {key \in DOMAIN generic_rules : key # <<>> /\ key[1] = symbol}
    IN  IF starting # {} THEN Some(generic_rules[CHOOSE key \in starting : TRUE]) ELSE None

\* generic_rules.get(&symbol.to_string()) (lsystem.rs:272): the key is the
\* String of the one character
generic_rules_get(generic_rules, symbol) ==
    IF <<symbol>> \in DOMAIN generic_rules THEN Some(generic_rules[<<symbol>>]) ELSE None

\* The chain with the generic rules looked up before the context sensitive
\* ones.
RuleKindGenericFirst(rules, symbol) ==
    IF symbol \in DOMAIN rules.grammar_rules THEN "stochastic"
    ELSE IF <<symbol>> \in DOMAIN rules.generic_rules THEN "generic"
    ELSE IF symbol \in DOMAIN rules.context_sensitive_rules THEN "context"
    ELSE "identity"

\* The table the if / else-if chain of the loop body picks for `symbol`
\* (lsystem.rs:247, 259, 272, 285): the first of the char-keyed stochastic
\* rules, the context sensitive rules and the String-keyed generic rules
\* that holds the symbol as a key, else none.
RuleKindFor(rules, symbol) ==
    IF symbol \in DOMAIN rules.grammar_rules THEN "stochastic"
    ELSE IF symbol \in DOMAIN rules.context_sensitive_rules THEN "context"
    ELSE IF generic_rules_get(rules.generic_rules, symbol).some THEN "generic"
    ELSE "identity"

\* The if / else-if chain of the loop body (lsystem.rs:246-288) for `symbol`
\* with the scan at symbol_index, then symbol_index += 1 and the exit test
\* (lsystem.rs:290-294).  A branch whose rule gives None appends nothing.
RewriteSymbol(rules, symbols, symbol, symbol_index, generations_left) ==
    LET kind == RuleKindFor(rules, symbol)
        ev(invoked, matched, panicked, emitted) ==
            Event(kind, symbol, symbol_index, symbols, generations_left, <<>>,
                  invoked, matched, panicked, emitted)
        expand(successor) ==
            LET r == apply_rules_recursive(rules, successor, generations_left - 1)
            IN  Then(Ok(<<>>, <<ev(kind = "context", TRUE, FALSE, r.out)>>), r)
        step ==
            IF kind = "stochastic"
            THEN LET result == StochasticApply(rules.grammar_rules[symbol], symbol)
                 IN  IF result.some THEN expand(result.value)
                     ELSE Ok(<<>>, <<ev(FALSE, FALSE, FALSE, <<>>)>>)
            ELSE IF kind = "context"
            THEN LET cb == ContextSensitiveApply(rules.context_sensitive_rules[symbol],
                                                 symbol, symbol_index, symbols)
                 IN  IF cb.panic THEN Panic(<<ev(TRUE, FALSE, TRUE, <<>>)>>)
                     ELSE IF cb.result.some THEN expand(cb.result.value)
                     ELSE Ok(<<>>, <<ev(TRUE, FALSE, FALSE, <<>>)>>)
            ELSE IF kind = "generic"
            THEN LET result == GenericApply(generic_rules_get(rules.generic_rules, symbol).value,
                                          <<symbol>>)
                 IN  IF result.some THEN expand(result.value)
                     ELSE Ok(<<>>, <<ev(FALSE, FALSE, FALSE, <<>>)>>)
            ELSE Ok(<<symbol>>, <<ev(FALSE, FALSE, FALSE, <<symbol>>)>>)
        next_index == symbol_index + 1
    IN  IF step.panic \/ next_index > Len(symbols) - 1
        THEN step
        ELSE Then(step, ScanLoop(rules, symbols, next_index, generations_left))

\* One turn of the loop (lsystem.rs:226-295) with the scan at symbol_index.
\* The parametric branch (lsystem.rs:231-244) moves symbol_index past the
\* module and does not `continue`: unless it breaks, the chain below it runs
\* for the same `symbol` with the moved symbol_index.
ScanLoop(rules, symbols, symbol_index, generations_left) ==
    LET symbol == symbols[symbol_index + 1]
        is_module == symbol_index + 1 <= Len(symbols) - 1 /\ symbols[symbol_index + 2] = "("
    IN  IF is_module
        THEN LET p == recursively_iterate_params(symbols, symbol_index + 2, <<>>)
                 has_rule == symbol \in DOMAIN rules.parametic_rules
                 result == IF has_rule
                           THEN ParametricApply(rules.parametic_rules[symbol], symbol, p.params)
                           ELSE None
                 emitted == IF ~p.panic /\ result.some THEN result.value ELSE <<>>
                 ev(panicked) == Event("parametric", symbol, symbol_index, symbols,
                                       generations_left, p.params, has_rule /\ ~panicked,
                                       result.some, panicked, emitted)
                 after == p.symbol_index + 1
             IN  IF p.panic THEN Panic(<<ev(TRUE)>>)
                 ELSE IF after > Len(symbols) - 1
                 THEN Ok(emitted, <<ev(FALSE)>>)
                 ELSE Then(Ok(emitted, <<ev(FALSE)>>),
                           RewriteSymbol(rules, symbols, symbol, after, generations_left))
        ELSE RewriteSymbol(rules, symbols, symbol, symbol_index, generations_left)

\* apply_rules_recursive without the push_str of the leaves at generation 0.
apply_rules_recursive_lost_leaves(rules, symbols, generations_left) ==
    IF generations_left = 0 THEN Ok(<<>>, <<>>)
    ELSE IF Len(symbols) = 0 THEN Ok(<<>>, <<>>)
    ELSE ScanLoop(rules, symbols, 0, generations_left)

\* LSystem::apply_rules_recursive (lsystem.rs:204-296)
apply_rules_recursive(rules, symbols, generations_left) ==
    IF generations_left = 0 THEN Ok(symbols, <<>>)
    ELSE IF Len(symbols) = 0 THEN Ok(<<>>, <<>>)
    ELSE ScanLoop(rules, symbols, 0, generations_left)

\* The rule tables of an LSystem as apply_rules_recursive is handed them
\* (lsystem.rs:173-181).
RulesOf(self) ==
    [grammar_rules |-> self.stochastic_rules,
     context_sensitive_rules |-> self.context_sensitive_rules,
     parametic_rules |-> self.parametric_production_rules,
     generic_rules |-> self.generic_stochastic_rules]

\* LSystem::generate (lsystem.rs:168-187): the expansion, then the Alphabet.
\* status is "panic" when the expansion or Alphabet::from_string panicked.
generate(self, generations) ==
    LET r == apply_rules_recursive(RulesOf(self), self.axiom, generations)
        alphabet == from_string(r.out, generations, self.alphabet_definer)
    IN  [status |-> IF r.panic \/ alphabet.panic THEN "panic" ELSE "returned",
         generations |-> generations,
         expanded |-> ~r.panic,
         result |-> r.out,
         alphabet |-> IF r.panic THEN from_string(<<>>, generations, self.alphabet_definer)
                      ELSE alphabet,
         log |-> r.log]

\* No call of generate yet.
NotGenerated ==
    [status |-> "none", generations |-> 0, expanded |-> FALSE, result |-> <<>>,
     alphabet |-> from_string(<<>>, 0, "DefaultAlphabetSymbolDefiner"), log |-> <<>>]

\* The LSystem value of the current state.
LSystemSelf ==
    [axiom |-> axiom,
     stochastic_rules |-> stochastic_rules,
     generic_stochastic_rules |-> generic_stochastic_rules,
     context_sensitive_rules |-> context_sensitive_rules,
     parametric_production_rules |-> parametric_production_rules,
     alphabet_definer |-> alphabet_definer]

----------------------------------------------------------------------------
(* The inputs of the rewriting engine.                                     *)

PlainChars == {"A", "B", "C"}

\* Axioms without a parametric module.
PlainAxioms == SeqsUpTo(PlainChars, MaxAxiomLen)

ArgNames == <<"0", "1", "2", "3", "4", "5", "6", "7", "8", "9">>

\* "0,1,..": the first n argument names, comma separated.
RECURSIVE ArgList(_)
ArgList(n) ==
    IF n = 0 THEN <<>>
    ELSE IF n = 1 THEN <<ArgNames[1]>>
    ELSE ArgList(n - 1) \o <<",", ArgNames[n]>>

\* What follows the module in an axiom.
ModuleTails == {<<>>, <<"B">>, <<"C">>, <<"B", "B">>, <<"B", "C">>}

\* Axioms with one parametric module A(..), closed by ')' or left open,
\* after at most one symbol and before at most two.
ModuleAxioms ==
    {pre \o <<"A", "(">> \o ArgList(n) \o close \o post :
        pre \in {<<>>, <<"B">>},
        n \in 0..MaxArgs,
        close \in {<<")">>, <<>>},
        post \in ModuleTails}

\* The rules the model registers: predecessors and successors.
StochasticRules == {<<"A", <<"A", "B">>>>, <<"A", <<>>>>, <<"B", <<"A">>>>}
GenericPredecessors == {<<"A">>, <<"C">>, <<"A", "B">>}
GenericSuccessors == {<<"C", "A">>}

RuleCount ==
    Cardinality(DOMAIN stochastic_rules) + Cardinality(DOMAIN generic_stochastic_rules)
    + Cardinality(DOMAIN context_sensitive_rules)
    + Cardinality(DOMAIN parametric_production_rules)

----------------------------------------------------------------------------
(* The operations of an LSystem.                                           *)

\* LSystem::new (lsystem.rs:117-129): the axiom and the definer are given,
\* the rule tables are empty.  Systems without a module use the crate's
\* definer; systems with one use the definer of the tests, the only one
\* that maps '(' ',' ')'.
InitLSystem ==
    /\ \/ axiom \in PlainAxioms /\ alphabet_definer = "DefaultAlphabetSymbolDefiner"
       \/ axiom \in ModuleAxioms /\ alphabet_definer = "DefaultAlphabet"
    /\ stochastic_rules = EmptyMap
    /\ generic_stochastic_rules = EmptyMap
    /\ context_sensitive_rules = EmptyMap
    /\ parametric_production_rules = EmptyMap
    /\ generated = NotGenerated

\* LSystem::add_stochastic_rule (lsystem.rs:330-335)
add_stochastic_rule(predecessor, successor) ==
    /\ RuleCount < MaxRules
    /\ stochastic_rules' = MapInsert(stochastic_rules, predecessor,
                                     [predecessor |-> predecessor, successor |-> successor])
    /\ generated' = NotGenerated
    /\ UNCHANGED <<axiom, generic_stochastic_rules, context_sensitive_rules,
                   parametric_production_rules, alphabet_definer>>

\* LSystem::add_dynamic_stochastic_rule (lsystem.rs:337-342)
add_dynamic_stochastic_rule(predecessor, successor) ==
    /\ RuleCount < MaxRules
    /\ generic_stochastic_rules' = MapInsert(generic_stochastic_rules, predecessor,
                                     [predecessor |-> predecessor, successor |-> successor])
    /\ generated' = NotGenerated
    /\ UNCHANGED <<axiom, stochastic_rules, context_sensitive_rules,
                   parametric_production_rules, alphabet_definer>>

\* LSystem::add_context_sensitive_rule (lsystem.rs:344-351)
add_context_sensitive_rule(predecessor, rule_cb) ==
    /\ RuleCount < MaxRules
    /\ context_sensitive_rules' = MapInsert(context_sensitive_rules, predecessor, rule_cb)
    /\ generated' = NotGenerated
    /\ UNCHANGED <<axiom, stochastic_rules, generic_stochastic_rules,
                   parametric_production_rules, alphabet_definer>>

\* LSystem::add_parametic_production_rule (lsystem.rs:353-356)
add_parametic_production_rule(predecessor, rule_cb) ==
    /\ RuleCount < MaxRules
    /\ parametric_production_rules' = MapInsert(parametric_production_rules, predecessor, rule_cb)
    /\ generated' = NotGenerated
    /\ UNCHANGED <<axiom, stochastic_rules, generic_stochastic_rules,
                   context_sensitive_rules, alphabet_definer>>

\* A call of LSystem::generate (lsystem.rs:168-187) on the system as it is.
Generate(generations) ==
    /\ generated' = generate(LSystemSelf, generations)
    /\ UNCHANGED <<axiom, stochastic_rules, generic_stochastic_rules,
                   context_sensitive_rules, parametric_production_rules,
                   alphabet_definer>>

AddStochasticRule ==
    /\ \E rule \in StochasticRules : add_stochastic_rule(rule[1], rule[2])
    /\ UNCHANGED exceptLSystem

AddDynamicStochasticRule ==
    /\ \E predecessor \in GenericPredecessors, successor \in GenericSuccessors :
          add_dynamic_stochastic_rule(predecessor, successor)
    /\ UNCHANGED exceptLSystem

AddContextSensitiveRule ==
    /\ add_context_sensitive_rule("A", "between_B_and_C")
    /\ UNCHANGED exceptLSystem

AddParametricRule ==
    /\ add_parametic_production_rule("A", "successor")
    /\ UNCHANGED exceptLSystem

CallGenerate ==
    /\ \E generations \in 0..MaxGen : Generate(generations)
    /\ UNCHANGED exceptLSystem

----------------------------------------------------------------------------
(* lexer.rs, parser.rs: the parameter list of an interpret statement.      *)
(* An f32 is modelled exactly, as a whole number of thousandths.           *)

Milli == 1000
F32(n) == n * Milli

\* Token (lexer.rs:202-221)
TokenNumber(n) == [kind |-> "Number", number |-> F32(n)]
TokenIdent(ident) == [kind |-> "Ident", ident |-> ident]
TokenSymbol(char) == [kind |-> "Symbol", char |-> char]
TokenParam(char) == [kind |-> "Param", char |-> char]
TokenSpace == [kind |-> "Space"]
TokenBreak == [kind |-> "Break"]

\* ActionParam (parser.rs), ExprKind::Binary
ActionParamNone == [kind |-> "None"]
ActionParamNumber(value) == [kind |-> "Number", value |-> value]
ActionParamNaN == [kind |-> "Number", nan |-> TRUE]
ActionParamConstant(ident) == [kind |-> "Constant", ident |-> ident]

\* the Binary expression with its operands exchanged
BinaryExprSwapped(op, lh, rh) == [kind |-> "Expression", op |-> op, lh |-> rh, rh |-> lh]

\* ActionParam::Expression(ExprKind::Binary(op, P::new(lh), P::new(rh)))
\* (parser.rs:406-410, 415-419, 423-427, 432-436)
BinaryExpr(op, lh, rh) == [kind |-> "Expression", op |-> op, lh |-> lh, rh |-> rh]

\* the BinOpKind of an operator symbol (parser.rs:402, 412, 421, 429)
BinOpKind(symbol) ==
    CASE symbol = "*" -> "Mul"
      [] symbol = "+" -> "Add"
      [] symbol = "-" -> "Sub"
      [] symbol = "/" -> "Div"

\* (rh as f64).log10().ceil() for a whole rh >= 1 (parser.rs:444)
RECURSIVE CeilLog10(_, _)
CeilLog10(rh, digits) ==
    IF 10 ^ digits >= rh THEN digits ELSE CeilLog10(rh, digits + 1)

\* lh + rh / 10^digits for a whole rh; log10(0) is -inf and the sum NaN
\* (parser.rs:444-446)
Decimal(lh, rh) ==
    IF rh = 0 THEN ActionParamNaN
    ELSE ActionParamNumber(lh + rh \div (10 ^ CeilLog10(rh \div Milli, 0)))

ParsePanic(index) == [panic |-> TRUE, param |-> ActionParamNone, index |-> index]
Parsed(param, index) == [panic |-> FALSE, param |-> param, index |-> index]

\* parse_parameters (parser.rs:369-478); index is the position of the
\* current token, counted from 1.
RECURSIVE parse_parameters(_, _, _)
parse_parameters(tokens, index, prev_parsed) ==
    IF index > Len(tokens) THEN ParsePanic(index)
    ELSE LET token == tokens[index]
         IN  CASE token.kind = "Number" ->
                    parse_parameters(tokens, index + 1, ActionParamNumber(token.number))
               [] token.kind = "Ident" ->
                    parse_parameters(tokens, index + 1, ActionParamConstant(token.ident))
               [] token.kind = "Symbol" ->
                    IF token.char \in {"*", "+", "-", "/"}
                    THEN LET rh == parse_parameters(tokens, index + 1, prev_parsed)
                         IN  IF rh.panic THEN rh
                             ELSE Parsed(BinaryExpr(BinOpKind(token.char), prev_parsed, rh.param),
                                         rh.index)
                    ELSE IF token.char = "."
                    THEN IF /\ prev_parsed.kind = "Number"
                            /\ index + 1 <= Len(tokens)
                            /\ tokens[index + 1].kind = "Number"
                         THEN parse_parameters(tokens, index + 2,
                                  IF "nan" \in DOMAIN prev_parsed THEN ActionParamNaN
                                  ELSE Decimal(prev_parsed.value, tokens[index + 1].number))
                         ELSE ParsePanic(index + 1)
                    ELSE IF token.char = ","
                    THEN Parsed(prev_parsed, index + 1)
                    ELSE ParsePanic(index + 1)
               [] token.kind = "Param" ->
                    IF token.char = "(" THEN parse_parameters(tokens, index + 1, prev_parsed)
                    ELSE IF token.char = ")" THEN Parsed(prev_parsed, index + 1)
                    ELSE ParsePanic(index)
               [] OTHER -> ParsePanic(index)

\* The first loop of parse_module_parameters (parser.rs:335-354): the tokens
\* up to the parenthesis that closes the first one.
RECURSIVE CollectParams(_, _, _, _)
CollectParams(tokens, index, params, param_stack) ==
    IF index > Len(tokens) THEN [panic |-> FALSE, params |-> params, index |-> index]
    ELSE LET token == tokens[index]
             pushed == Append(params, token)
         IN  IF token.kind = "Param" /\ token.char = ")"
             THEN IF param_stack = <<>>
                  THEN [panic |-> TRUE, params |-> pushed, index |-> index + 1]
                  ELSE IF Len(param_stack) = 1
                  THEN [panic |-> FALSE, params |-> pushed, index |-> index + 1]
                  ELSE CollectParams(tokens, index + 1, pushed,
                                     SubSeq(param_stack, 1, Len(param_stack) - 1))
             ELSE IF token.kind = "Param" /\ token.char = "("
             THEN CollectParams(tokens, index + 1, pushed, Append(param_stack, "("))
             ELSE CollectParams(tokens, index + 1, pushed, param_stack)

\* LexedTokens::new (parser.rs:151-159)
LexedTokensNew(input) == SelectSeq(input, LAMBDA x : x.kind # "Space")

\* The second loop of parse_module_parameters (parser.rs:359-364).
\* finished() computes len - 1, so no token at all is a panic (parser.rs:161).
RECURSIVE ParseCollected(_, _, _)
ParseCollected(tokens, index, params) ==
    IF tokens = <<>> THEN [panic |-> TRUE, params |-> params]
    ELSE IF index > Len(tokens) THEN [panic |-> FALSE, params |-> params]
    ELSE LET parsed_token == parse_parameters(tokens, index, ActionParamNone)
         IN  IF parsed_token.panic THEN [panic |-> TRUE, params |-> params]
             ELSE ParseCollected(tokens, parsed_token.index,
                      IF parsed_token.param.kind # "None"
                      THEN Append(params, parsed_token.param) ELSE params)

\* parse_module_parameters (parser.rs:329-367)
parse_module_parameters(tokens, index) ==
    LET collected == CollectParams(tokens, index, <<>>, <<>>)
    IN  IF collected.panic THEN [panic |-> TRUE, params |-> <<>>, index |-> collected.index]
        ELSE [index |-> collected.index] @@
             ParseCollected(LexedTokensNew(collected.params), 1, <<>>)

----------------------------------------------------------------------------
(* turtle_graphics.rs: the turtle and its transform stack.                 *)
(* Angles are whole quarter turns and lengths whole units, so that the     *)
(* matrices are exact; a Mat4 without translation is kept as its 3x3 part, *)
(* a uniform scale matrix as its factor, and a Vec3 in half units.         *)

Identity == <<<<1, 0, 0>>, <<0, 1, 0>>, <<0, 0, 1>>>>

MatMul(a, b) ==
    [i \in 1..3 |-> [j \in 1..3 |->
        a[i][1] * b[1][j] + a[i][2] * b[2][j] + a[i][3] * b[3][j]]]

MulVec3(m, v) ==
    [i \in 1..3 |-> m[i][1] * v[1] + m[i][2] * v[2] + m[i][3] * v[3]]

\* cos and sin of a number of quarter turns
Cos(quarters) == <<1, 0, -1, 0>>[(quarters % 4) + 1]
Sin(quarters) == <<0, 1, 0, -1>>[(quarters % 4) + 1]

\* Mat4::from_rotation_z, from_rotation_x, from_rotation_y
from_rotation_z(angle) ==
    <<<<Cos(angle), -Sin(angle), 0>>, <<Sin(angle), Cos(angle), 0>>, <<0, 0, 1>>>>
from_rotation_x(angle) ==
    <<<<1, 0, 0>>, <<0, Cos(angle), -Sin(angle)>>, <<0, Sin(angle), Cos(angle)>>>>
from_rotation_y(angle) ==
    <<<<Cos(angle), 0, Sin(angle)>>, <<0, 1, 0>>, <<-Sin(angle), 0, Cos(angle)>>>>

\* Turtle::new (turtle_graphics.rs:17-23); the origin is (0, -0.5, 0)
TurtleNew == [rotation |-> Identity, scale |-> 1, origin |-> <<0, -1, 0>>]

\* Turtle::transform (turtle_graphics.rs:60-66)
transform(self, position) == MulVec3(self.rotation, position)

\* Turtle::forward (turtle_graphics.rs:26-28)
forward(self, len) ==
    LET moved == transform(self, <<0, 2 * len, 0>>)
    IN  [self EXCEPT !.origin = <<@[1] + moved[1], @[2] + moved[2], @[3] + moved[3]>>]

\* Turtle::set_origin (turtle_graphics.rs:31-33)
set_origin(self, postion) == [self EXCEPT !.origin = postion]

\* Turtle::scale (turtle_graphics.rs:35-37)
scale(self, factor) == [self EXCEPT !.scale = @ * factor]

\* Turtle::rotate_z, rotate_x, rotate_y (turtle_graphics.rs:40-52)
rotate_z(self, rotation_angle) ==
    [self EXCEPT !.rotation = MatMul(@, from_rotation_z(rotation_angle))]
rotate_x(self, rotation_angle) ==
    [self EXCEPT !.rotation = MatMul(@, from_rotation_x(rotation_angle))]
rotate_y(self, rotation_angle) ==
    [self EXCEPT !.rotation = MatMul(@, from_rotation_y(rotation_angle))]

\* push putting the transform under the ones already there
push_front(transforms, a_transform) == <<a_transform>> \o transforms

\* TurtleTransformStack::push (turtle_graphics.rs:87-89)
push(transforms, a_transform) == Append(transforms, a_transform)

\* pop taking the oldest transform
pop_front(transforms) ==
    IF transforms = <<>> THEN [panic |-> TRUE, transforms |-> transforms]
    ELSE [panic |-> FALSE, turtle |-> Head(transforms), transforms |-> Tail(transforms)]

\* pop giving the default turtle when there is no transform
pop_or_default(transforms) ==
    IF transforms = <<>>
    THEN [panic |-> FALSE, turtle |-> TurtleNew, transforms |-> transforms]
    ELSE [panic |-> FALSE, turtle |-> transforms[Len(transforms)],
          transforms |-> SubSeq(transforms, 1, Len(transforms) - 1)]

\* TurtleTransformStack::pop (turtle_graphics.rs:91-93): pop_back().unwrap()
pop(transforms) ==
    IF transforms = <<>> THEN [panic |-> TRUE, transforms |-> transforms]
    ELSE [panic |-> FALSE, turtle |-> transforms[Len(transforms)],
          transforms |-> SubSeq(transforms, 1, Len(transforms) - 1)]

\* The context LSystem::execute starts with (lsystem.rs:305-315).
ExecuteContextOf(origin, factor, rotation) ==
    rotate_y(rotate_x(rotate_z(set_origin(scale(TurtleNew, factor), origin),
                               rotation[3]), rotation[1]), rotation[2])

----------------------------------------------------------------------------
(* action.rs: ParamsResolver and ActionResolver; the actions' from_params  *)
(* and execute (default_actions.rs, examples/glow_egui.rs).                *)
(* The result of an evaluation is [panic, some, value]; a value that is    *)
(* not finite (a division by zero and what is computed from it) is kept as *)
(* NonFinite and not followed further.                                     *)

NonFinite == [finite |-> FALSE]
Finite(value) == [finite |-> TRUE, milli |-> value]

EvalPanic == [panic |-> TRUE, some |-> FALSE]
EvalNone == [panic |-> FALSE, some |-> FALSE]
EvalSome(value) == [panic |-> FALSE, some |-> TRUE, value |-> value]

\* lh op rh on f32 (action.rs:96-104); None for the other BinOpKinds
BinaryValue(opt, lh, rh) ==
    IF opt \notin {"Add", "Sub", "Mul", "Div"} THEN None
    ELSE IF ~lh.finite \/ ~rh.finite THEN Some(NonFinite)
    ELSE CASE opt = "Add" -> Some(Finite(lh.milli + rh.milli))
           [] opt = "Sub" -> Some(Finite(lh.milli - rh.milli))
           [] opt = "Mul" -> Some(Finite((lh.milli * rh.milli) \div Milli))
           [] opt = "Div" -> IF rh.milli = 0 THEN Some(NonFinite)
                             ELSE Some(Finite((lh.milli * Milli) \div rh.milli))

\* ParamsResolver::action_param (action.rs:85-114)
RECURSIVE action_param(_)
action_param(param) ==
    CASE param.kind = "Number" ->
            IF "nan" \in DOMAIN param THEN EvalSome(NonFinite)
            ELSE EvalSome(Finite(param.value))
      [] param.kind = "Constant" -> EvalPanic
      [] param.kind = "Expression" ->
            LET lh == action_param(param.lh)
            IN  IF lh.panic \/ ~lh.some THEN lh
                ELSE LET rh == action_param(param.rh)
                     IN  IF rh.panic \/ ~rh.some THEN rh
                         ELSE LET value == BinaryValue(param.op, lh.value, rh.value)
                              IN  IF value.some THEN EvalSome(value.value) ELSE EvalPanic
      [] param.kind = "None" -> EvalNone

\* ParamsResolver::get (action.rs:77-83); index counts from 0
get(params, index) ==
    IF index + 1 <= Len(params) THEN action_param(params[index + 1]) ELSE EvalNone

\* Action::new (abs.rs:31-36)
ActionNew(name, params) == [name |-> name, params |-> params]

\* The action types: name() of each (default_actions.rs:25-27, 50-52,
\* 75-77, 100-102, 124-126; examples/glow_egui.rs:32-34).
ActionTypes ==
    {"RotateZAction", "RotateXAction", "RotateYAction", "PushTranformToStackAction",
     "PopTransformFromStackAction", "MoveForward"}

name(A) ==
    IF A = "PopTransformFromStackAction" THEN "PushTranformToStackAction" ELSE A

\* A::from_params (default_actions.rs:17-23, 42-48, 67-73, 95-98, 119-122;
\* examples/glow_egui.rs:26-32): [panic, some, action].  The first parameter
\* of a rotation or a move is unwrapped.
from_params(A, symbol, params) ==
    IF A \in {"PushTranformToStackAction", "PopTransformFromStackAction"}
    THEN [panic |-> FALSE, some |-> TRUE, action |-> [type |-> A]]
    ELSE LET x == get(params, 0)
         IN  IF x.panic \/ ~x.some THEN [panic |-> TRUE, some |-> FALSE]
             ELSE [panic |-> FALSE, some |-> TRUE,
                   action |-> [type |-> A, value |-> x.value]]

\* ActionResolver::add_action_resolver::<A>(trigger) (action.rs:13-25): the
\* factory kept under (A::name(), char) is the type and the trigger it
\* captured.
add_action_resolver(actions, A, trigger) ==
    IF trigger.kind \in {"Constant", "Variable"}
    THEN MapInsert(actions, <<name(A), trigger.char>>, [type |-> A, trigger |-> trigger])
    ELSE actions

\* resolve that ignores the trigger character
resolve_by_name(actions, trigger, action) ==
    IF trigger.kind \in {"Constant", "Variable"}
    THEN IF \E key \in DOMAIN actions : key[1] = action.name
         THEN LET key == CHOOSE key \in DOMAIN actions : key[1] = action.name
              IN  from_params(actions[key].type, actions[key].trigger, action.params)
         ELSE [panic |-> FALSE, some |-> FALSE]
    ELSE [panic |-> FALSE, some |-> FALSE]

\* ActionResolver::resolve (action.rs:27-33)
resolve(actions, trigger, action) ==
    IF trigger.kind \in {"Constant", "Variable"}
    THEN IF <<action.name, trigger.char>> \in DOMAIN actions
         THEN LET cb == actions[<<action.name, trigger.char>>]
              IN  from_params(cb.type, cb.trigger, action.params)
         ELSE [panic |-> FALSE, some |-> FALSE]
    ELSE [panic |-> FALSE, some |-> FALSE]

\* a whole number of quarter turns, or of units, from an f32
Whole(value) == IF value.finite THEN value.milli \div Milli ELSE 0

\* ExecuteContext::new (lsystem.rs:471-479)
ExecuteContextNew == [elements |-> <<>>, transform_stack |-> <<>>, turtle |-> TurtleNew]

\* LSystemAction::execute of each type (default_actions.rs:13-15, 38-40,
\* 63-65, 91-93, 115-117; examples/glow_egui.rs:22-24) on an
\* ExecuteContext: [panic, context].
execute(action, context) ==
    CASE action.type = "RotateZAction" ->
            [panic |-> FALSE,
             context |-> [context EXCEPT !.turtle = rotate_z(@, Whole(action.value))]]
      [] action.type = "RotateXAction" ->
            [panic |-> FALSE,
             context |-> [context EXCEPT !.turtle = rotate_x(@, Whole(action.value))]]
      [] action.type = "RotateYAction" ->
            [panic |-> FALSE,
             context |-> [context EXCEPT !.turtle = rotate_y(@, Whole(action.value))]]
      [] action.type = "MoveForward" ->
            [panic |-> FALSE,
             context |-> [context EXCEPT !.turtle = forward(@, Whole(action.value))]]
      [] action.type = "PushTranformToStackAction" ->
            [panic |-> FALSE,
             context |-> [context EXCEPT !.transform_stack = push(@, context.turtle)]]
      [] action.type = "PopTransformFromStackAction" ->
            LET popped == pop(context.transform_stack)
            IN  IF popped.panic THEN [panic |-> TRUE, context |-> context]
                ELSE [panic |-> FALSE,
                      context |-> [context EXCEPT !.turtle = popped.turtle,
                                                  !.transform_stack = popped.transforms]]

\* The resolver handed to run: the closure of the test
\* parse_lsystem_from_script_and_action (tests/lsystem.rs:223-239), or an
\* ActionResolver asked by resolve (examples/glow_egui.rs:165-172).
ClosureResolver == [kind |-> "closure"]
ActionResolverNew == [kind |-> "ActionResolver", actions |-> EmptyMap]

CallResolver(resolver_arg, token, interpret, by) ==
    IF resolver_arg.kind = "closure"
    THEN IF by.name = "RotateXAction"
         THEN IF Len(by.params) >= 1 /\ by.params[1].kind = "Number"
                 /\ "value" \in DOMAIN by.params[1]
              THEN [panic |-> FALSE, some |-> TRUE,
                    action |-> [type |-> "RotateXAction",
                                value |-> Finite(by.params[1].value)]]
              ELSE [panic |-> TRUE, some |-> FALSE]
         ELSE [panic |-> FALSE, some |-> FALSE]
    ELSE resolve(resolver_arg.actions, token, by)

\* the last rule of the symbol instead of the first
FindLastActionRule(rules, char) ==
    IF \E i \in 1..Len(rules) : rules[i][1] = char
    THEN Some(rules[CHOOSE i \in 1..Len(rules) :
                        /\ rules[i][1] = char
                        /\ \A j \in (i + 1)..Len(rules) : rules[j][1] # char])
    ELSE None

\* self.action_rules.iter().find(|x| x.0 == var.to_string())
\* (lsystem.rs:141-143, 150-153): the first rule of the symbol, if any
FindActionRule(rules, char) ==
    IF \E i \in 1..Len(rules) : rules[i][1] = char
    THEN Some(rules[CHOOSE i \in 1..Len(rules) :
                        /\ rules[i][1] = char
                        /\ \A j \in 1..(i - 1) : rules[j][1] # char])
    ELSE None

\* a turn of the loop that panics on a symbol without an action rule
RunTokenStrict(rules, resolver_arg, token, context) ==
    IF token.kind = "Module" \/ ~FindActionRule(rules, token.char).some
    THEN [panic |-> TRUE, executed |-> FALSE, context |-> context]
    ELSE LET by == FindActionRule(rules, token.char).value[2]
             resolved == CallResolver(resolver_arg, token, token.char, by)
         IN  IF resolved.panic \/ ~resolved.some
             THEN [panic |-> resolved.panic, executed |-> FALSE, context |-> context]
             ELSE LET done == execute(resolved.action, context)
                  IN  [panic |-> done.panic, executed |-> TRUE,
                       action |-> resolved.action, context |-> done.context]

\* One turn of the loop of LSystem::run (lsystem.rs:138-162) on a token:
\* [panic, executed, action, context].
RunToken(rules, resolver_arg, token, context) ==
    LET skipped == [panic |-> FALSE, executed |-> FALSE, context |-> context]
    IN  IF token.kind = "Module"
        THEN [panic |-> TRUE, executed |-> FALSE, context |-> context]  \* todo!()
        ELSE LET found == FindActionRule(rules, token.char)
             IN  IF ~found.some THEN skipped
                 ELSE LET interpret == found.value[1]
                          by == found.value[2]
                          resolved == CallResolver(resolver_arg, token, interpret, by)
                      IN  IF resolved.panic
                          THEN [panic |-> TRUE, executed |-> FALSE, context |-> context]
                          ELSE IF ~resolved.some THEN skipped
                          ELSE LET done == execute(resolved.action, context)
                               IN  [panic |-> done.panic, executed |-> TRUE,
                                    action |-> resolved.action,
                                    context |-> done.context]

----------------------------------------------------------------------------
(* action.rs: parameters with ExprKind::Random.  perchance::global() is    *)
(* one generator for the whole process; which state it is in when the      *)
(* first value is drawn is not decided by this code.  The generator is     *)
(* modelled by a state in 0..7 and a fixed step.                           *)

\* ActionParam::Expression(ExprKind::Random(start..end)) (abs.rs:63)
RandomExpr(start, end) ==
    [kind |-> "Expression", random |-> TRUE, start |-> start, end |-> end]

\* rng.uniform_range_f32(range) (action.rs:107-108): a value of
\* start..end decided by the state of the generator, which moves on
uniform_range_f32(state, start, end) ==
    [value |-> start + (state % ((end - start) \div Milli)) * Milli,
     rng |-> (5 * state + 3) % 8]

\* ParamsResolver::action_param (action.rs:85-114) with the generator:
\* [panic, some, value, rng, draws], draws being the values drawn, in order
RECURSIVE action_param_rng(_, _)
action_param_rng(param, state) ==
    LET none == [rng |-> state, draws |-> <<>>]
    IN  CASE param.kind = "Number" ->
                (IF "nan" \in DOMAIN param THEN EvalSome(NonFinite)
                 ELSE EvalSome(Finite(param.value))) @@ none
          [] param.kind = "Constant" -> EvalPanic @@ none
          [] param.kind = "Expression" /\ "random" \in DOMAIN param ->
                LET rand == uniform_range_f32(state, param.start, param.end)
                IN  EvalSome(Finite(rand.value))
                    @@ [rng |-> rand.rng, draws |-> <<rand.value>>]
          [] param.kind = "Expression" /\ "random" \notin DOMAIN param ->
                LET lh == action_param_rng(param.lh, state)
                IN  IF lh.panic \/ ~lh.some THEN lh
                    ELSE LET rh == action_param_rng(param.rh, lh.rng)
                             both == [rng |-> rh.rng, draws |-> lh.draws \o rh.draws]
                         IN  IF rh.panic \/ ~rh.some THEN both @@ rh
                             ELSE LET value == BinaryValue(param.op, lh.value, rh.value)
                                  IN  IF value.some THEN EvalSome(value.value) @@ both
                                      ELSE EvalPanic @@ both
          [] param.kind = "None" -> EvalNone @@ none

\* One turn of the loop of LSystem::run (lsystem.rs:138-162) with an
\* ActionResolver (action.rs:27-33) whose action evaluates its first
\* parameter with the generator (default_actions.rs:17-23):
\* [panic, context, rng, draws]
RunTokenRandom(rules, actions, token, context, state) ==
    LET skipped == [panic |-> FALSE, context |-> context, rng |-> state, draws |-> <<>>]
        failed == [panic |-> TRUE, context |-> context, rng |-> state, draws |-> <<>>]
    IN  IF token.kind = "Module" THEN failed
        ELSE LET found == FindActionRule(rules, token.char)
             IN  IF ~found.some THEN skipped
                 ELSE LET by == found.value[2]
                          key == <<by.name, token.char>>
                      IN  IF key \notin DOMAIN actions THEN skipped
                          ELSE IF actions[key].type \in {"PushTranformToStackAction",
                                                         "PopTransformFromStackAction"}
                          THEN LET done == execute([type |-> actions[key].type], context)
                               IN  [panic |-> done.panic, context |-> done.context,
                                    rng |-> state, draws |-> <<>>]
                          ELSE IF by.params = <<>> THEN failed
                          ELSE LET x == action_param_rng(by.params[1], state)
                               IN  IF x.panic \/ ~x.some
                                   THEN [failed EXCEPT !.rng = x.rng, !.draws = x.draws]
                                   ELSE LET done == execute([type |-> actions[key].type,
                                                             value |-> x.value], context)
                                        IN  [panic |-> done.panic, context |-> done.context,
                                             rng |-> x.rng, draws |-> x.draws]

\* LSystem::run (lsystem.rs:131-164) from the token at index on
RECURSIVE RunRandomFrom(_, _, _, _, _, _, _)
RunRandomFrom(rules, actions, alphabet, index, context, state, draws) ==
    IF index > Len(alphabet)
    THEN [panic |-> FALSE, context |-> context, rng |-> state, draws |-> draws]
    ELSE LET turn == RunTokenRandom(rules, actions, alphabet[index], context, state)
         IN  IF turn.panic
             THEN [panic |-> TRUE, context |-> turn.context, rng |-> turn.rng,
                   draws |-> draws \o turn.draws]
             ELSE RunRandomFrom(rules, actions, alphabet, index + 1, turn.context,
                                turn.rng, draws \o turn.draws)

----------------------------------------------------------------------------
(* lexer.rs: the script is a sequence of characters, an identifier the     *)
(* sequence of its letters.                                                *)

Letters ==
    {"a", "b", "c", "d", "e", "f", "g", "h", "i", "j", "k", "l", "m", "n", "o", "p",
     "q", "r", "s", "t", "u", "v", "w", "x", "y", "z",
     "A", "B", "C", "D", "E", "F", "G", "H", "I", "J", "K", "L", "M", "N", "O", "P",
     "Q", "R", "S", "T", "U", "V", "W", "X", "Y", "Z"}
Digits == {"0", "1", "2", "3", "4", "5", "6", "7", "8", "9"}

\* LanguageRegex::new (lexer.rs:18-41), on one character
symbol_regex(char) ==
    char \in {"+", "-", "*", "/", ">", "<", "&", "|", "\\", "^", "=", ","}
break_regex(char) == char = ";"
parentesis_regex(char) == char \in {"{", "}"}
branching_regex(char) == char \in {"[", "]"}
param_regex(char) == char \in {"(", ")"}
char_regex(char) == char \in Letters
number_regex(char) == char \in Digits
whitespace_regex(char) == char \in {" ", "\n", "\t", "\r"}

\* enum Token (lexer.rs:202-221): the variants not built before
TokenBracket(char) == [kind |-> "Bracket", char |-> char]
TokenParentesis(char) == [kind |-> "Parentesis", char |-> char]
TokenRange(start, end) == [kind |-> "Range", start |-> start, end |-> end]
TokenNumberOf(milli) == [kind |-> "Number", number |-> milli]

DigitValue(char) ==
    CASE char = "0" -> 0 [] char = "1" -> 1 [] char = "2" -> 2 [] char = "3" -> 3
      [] char = "4" -> 4 [] char = "5" -> 5 [] char = "6" -> 6 [] char = "7" -> 7
      [] char = "8" -> 8 [] char = "9" -> 9

DigitChar(d) == <<"0", "1", "2", "3", "4", "5", "6", "7", "8", "9">>[d + 1]

RECURSIVE NaturalOf(_)
NaturalOf(digits) ==
    IF digits = <<>> THEN 0
    ELSE 10 * NaturalOf(SubSeq(digits, 1, Len(digits) - 1))
         + DigitValue(digits[Len(digits)])

\* the thousandths a fraction part stands for (three digits are kept)
FractionOf(digits) ==
    LET padded == digits \o <<"0", "0", "0">>
    IN  NaturalOf(SubSeq(padded, 1, 3))

\* str::parse::<f32> (lexer.rs:133-138, 142) of a text of digits and '.':
\* digits, "digits.", ".digits" and "digits.digits" are numbers.
ParseF32(text) ==
    LET dots == {i \in 1..Len(text) : text[i] = "."}
    IN  IF text = <<>> \/ text = <<".">> \/ Cardinality(dots) > 1
        THEN [ok |-> FALSE]
        ELSE IF dots = {} THEN [ok |-> TRUE, value |-> NaturalOf(text) * Milli]
        ELSE LET dot == CHOOSE i \in dots : TRUE
             IN  [ok |-> TRUE,
                  value |-> NaturalOf(SubSeq(text, 1, dot - 1)) * Milli
                            + FractionOf(SubSeq(text, dot + 1, Len(text)))]

RECURSIVE NaturalText(_)
NaturalText(n) ==
    IF n < 10 THEN <<DigitChar(n)>>
    ELSE NaturalText(n \div 10) \o <<DigitChar(n % 10)>>

\* the digits of a fraction of thousandths, without trailing zeros
FractionText(thousandths) ==
    IF thousandths = 0 THEN <<>>
    ELSE IF thousandths % 100 = 0 THEN <<DigitChar(thousandths \div 100)>>
    ELSE IF thousandths % 10 = 0
    THEN <<DigitChar(thousandths \div 100), DigitChar((thousandths \div 10) % 10)>>
    ELSE <<DigitChar(thousandths \div 100), DigitChar((thousandths \div 10) % 10),
           DigitChar(thousandths % 10)>>

\* a Display that prints a fraction part for a whole number too
DisplayWithFraction(value) ==
    NaturalText(value \div Milli)
    \o <<".">> \o (IF value % Milli = 0 THEN <<"0">> ELSE FractionText(value % Milli))

\* f32 Display, used by to_string (lexer.rs:227): no fraction part for a
\* whole number
DisplayF32(value) ==
    NaturalText(value \div Milli)
    \o (IF value % Milli = 0 THEN <<>> ELSE <<".">> \o FractionText(value % Milli))

\* f32 Debug, used by the Debug of a Range (lexer.rs:234): always a fraction
DebugF32(value) ==
    NaturalText(value \div Milli)
    \o <<".">> \o (IF value % Milli = 0 THEN <<"0">> ELSE FractionText(value % Milli))

\* Token::to_string (lexer.rs:223-237)
token_to_string(token) ==
    CASE token.kind = "Ident" -> token.ident
      [] token.kind = "Number" -> DisplayF32(token.number)
      [] token.kind \in {"Symbol", "Param", "Bracket", "Parentesis"} -> <<token.char>>
      [] token.kind = "Break" -> <<";">>
      [] token.kind = "Space" -> <<" ">>
      [] token.kind = "Range" -> DebugF32(token.start) \o <<".", ".">> \o DebugF32(token.end)

\* UnlexedTokens::finished (lexer.rs:55-57); index counts from 1, and the
\* input is not empty
UnlexedFinished(input, index) == index > Len(input)

\* Lexer::lex_string (lexer.rs:157-173): the index after the letters
RECURSIVE lex_string(_, _)
lex_string(input, index) ==
    IF UnlexedFinished(input, index) THEN index
    ELSE IF char_regex(input[index]) THEN lex_string(input, index + 1)
    ELSE index

\* Lexer::lex_number (lexer.rs:175-192): the index it leaves, which is the
\* last character of the number when another character follows
RECURSIVE lex_number(_, _)
lex_number(input, index) ==
    IF UnlexedFinished(input, index) THEN index
    ELSE IF number_regex(input[index]) \/ input[index] = "."
    THEN lex_number(input, index + 1)
    ELSE index - 1

\* number.split("..") (lexer.rs:129-131): the first two parts
RangeParts(number) ==
    LET first == CHOOSE i \in 1..(Len(number) - 1) :
                    /\ number[i] = "." /\ number[i + 1] = "."
                    /\ \A j \in 1..(i - 1) : ~(number[j] = "." /\ number[j + 1] = ".")
        rest == SubSeq(number, first + 2, Len(number))
        seconds == {i \in 1..(Len(rest) - 1) : rest[i] = "." /\ rest[i + 1] = "."}
        second == IF seconds = {} THEN Len(rest) + 1
                  ELSE CHOOSE i \in seconds : \A j \in seconds : i <= j
    IN  [start |-> SubSeq(number, 1, first - 1), end |-> SubSeq(rest, 1, second - 1)]

\* the number branch of lex_next_char (lexer.rs:124-146): [panic, token]
NumberToken(number) ==
    IF \E i \in 1..(Len(number) - 1) : number[i] = "." /\ number[i + 1] = "."
    THEN LET parts == RangeParts(number)
             start_range == ParseF32(parts.start)
             end_range == ParseF32(parts.end)
         IN  IF start_range.ok /\ end_range.ok
             THEN [panic |-> FALSE, token |-> TokenRange(start_range.value, end_range.value)]
             ELSE [panic |-> TRUE]
    ELSE LET parsed == ParseF32(number)
         IN  IF parsed.ok THEN [panic |-> FALSE, token |-> TokenNumberOf(parsed.value)]
             ELSE [panic |-> TRUE]

\* a whitespace branch that takes the whole run of whitespace at once
SpaceBranchWholeRun(input, index) ==
    LET after == CHOOSE j \in (index + 1)..(Len(input) + 1) :
                    /\ \A k \in index..(j - 1) : whitespace_regex(input[k])
                    /\ (j <= Len(input) => ~whitespace_regex(input[j]))
    IN  [panic |-> FALSE, token |-> TokenSpace, index |-> after]

\* the whitespace branch of lex_next_char (lexer.rs:147-149): one Space
\* token, and the cursor advances by one character
SpaceBranch(input, index) ==
    [panic |-> FALSE, token |-> TokenSpace, index |-> index + 1]

\* The branches of lex_next_char (lexer.rs:104-152) on the character at
\* index: [panic, token, index], the index being the one the next call of
\* lex_next_char finds.
LexBranch(input, index) ==
    LET current_char == input[index]
        one(token) == [panic |-> FALSE, token |-> token, index |-> index + 1]
    IN  CASE symbol_regex(current_char) -> one(TokenSymbol(current_char))
          [] break_regex(current_char) -> one(TokenBreak)
          [] parentesis_regex(current_char) -> one(TokenParentesis(current_char))
          [] branching_regex(current_char) -> one(TokenBracket(current_char))
          [] param_regex(current_char) -> one(TokenParam(current_char))
          [] char_regex(current_char) ->
                LET after == lex_string(input, index)
                IN  [panic |-> FALSE, token |-> TokenIdent(SubSeq(input, index, after - 1)),
                     index |-> after]
          [] number_regex(current_char) ->
                LET last == lex_number(input, index)
                    stopped == last < Len(input)
                    number == SubSeq(input, index, IF stopped THEN last ELSE Len(input))
                    lexed == NumberToken(number)
                IN  IF lexed.panic THEN [panic |-> TRUE]
                    ELSE [panic |-> FALSE, token |-> lexed.token, index |-> last + 1]
          [] whitespace_regex(current_char) -> SpaceBranch(input, index)
          [] OTHER -> [panic |-> TRUE]

\* Lexer::lex_next_char (lexer.rs:96-155): [panic, tokens]
RECURSIVE lex_next_char(_, _, _)
lex_next_char(input, index, tokens) ==
    IF UnlexedFinished(input, index) THEN [panic |-> FALSE, tokens |-> tokens]
    ELSE LET branch == LexBranch(input, index)
         IN  IF branch.panic THEN [panic |-> TRUE, tokens |-> tokens]
             ELSE lex_next_char(input, branch.index, Append(tokens, branch.token))

\* Lexer::lex (lexer.rs:87-94); finished() of an empty input computes
\* len - 1 and the first character is then sliced out of nothing: a panic
lex(input) ==
    IF input = <<>> THEN [panic |-> TRUE, tokens |-> <<>>]
    ELSE lex_next_char(input, 1, <<>>)

----------------------------------------------------------------------------
(* parser.rs: parse and the statements of an lsystem block.  A parser      *)
(* function gives [panic, statement, index], index being the position of   *)
(* the current token counted from 1.                                       *)

\* the identifiers the parser looks for
KwLsystem == <<"l", "s", "y", "s", "t", "e", "m">>
KwAxiom == <<"a", "x", "i", "o", "m">>
KwReplace == <<"r", "e", "p", "l", "a", "c", "e">>
KwBy == <<"b", "y">>
KwInterpret == <<"i", "n", "t", "e", "r", "p", "r", "e", "t">>
KwAs == <<"a", "s">>
KwLet == <<"l", "e", "t">>

\* enum StatementKind (abs.rs:15-21)
StatementAxiom(string) == [kind |-> "Axiom", axiom |-> string]
StatementDefineVariable == [kind |-> "DefineVariable"]
StatementReplace(replace, by) == [kind |-> "Replace", replace |-> replace, by |-> by]
StatementInterpret(trigger, action) ==
    [kind |-> "Interpret", trigger |-> trigger, action |-> action]

StatementPanic(index) == [panic |-> TRUE, index |-> index]
StatementParsed(statement, index) ==
    [panic |-> FALSE, statement |-> statement, index |-> index]

\* LexedTokens::current_token (parser.rs:164-170): is there one
HasCurrent(tokens, index) == index <= Len(tokens)

IsIdent(tokens, index) == HasCurrent(tokens, index) /\ tokens[index].kind = "Ident"
IsKeyword(tokens, index, keyword) ==
    IsIdent(tokens, index) /\ tokens[index].ident = keyword
IsBreak(tokens, index) == HasCurrent(tokens, index) /\ tokens[index].kind = "Break"

\* the loop of parse_axiom (parser.rs:248-262)
RECURSIVE AxiomSymbols(_, _, _)
AxiomSymbols(tokens, index, symbols) ==
    IF ~HasCurrent(tokens, index) THEN StatementPanic(index)
    ELSE LET token == tokens[index]
         IN  CASE token.kind = "Symbol" ->
                    AxiomSymbols(tokens, index + 1, symbols \o <<token.char>>)
               [] token.kind = "Ident" ->
                    AxiomSymbols(tokens, index + 1, symbols \o token.ident)
               [] token.kind = "Break" -> StatementParsed(StatementAxiom(symbols), index)
               [] OTHER -> StatementPanic(index)

\* parse_axiom (parser.rs:244-265)
parse_axiom(tokens, index) == AxiomSymbols(tokens, index + 1, <<>>)

\* the loop of parse_interpret (parser.rs:274-294): the trigger tokens up to
\* the identifier `as`, which is gone past
RECURSIVE ActionTokens(_, _, _)
ActionTokens(tokens, index, action_tokens) ==
    IF ~HasCurrent(tokens, index)
    THEN [panic |-> FALSE, action_tokens |-> action_tokens, index |-> index]
    ELSE LET token == tokens[index]
         IN  CASE token.kind = "Symbol" ->
                    ActionTokens(tokens, index + 1, Append(action_tokens, <<token.char>>))
               [] token.kind = "Ident" ->
                    IF token.ident = KwAs
                    THEN [panic |-> FALSE, action_tokens |-> action_tokens,
                          index |-> index + 1]
                    ELSE ActionTokens(tokens, index + 1, Append(action_tokens, token.ident))
               [] OTHER ->
                    [panic |-> TRUE, action_tokens |-> action_tokens, index |-> index]

\* parse_interpret (parser.rs:269-327)
parse_interpret(tokens, index) ==
    LET triggers == ActionTokens(tokens, index + 1, <<>>)
    IN  IF triggers.panic THEN StatementPanic(triggers.index)
        ELSE IF ~HasCurrent(tokens, triggers.index) THEN StatementPanic(triggers.index)
        ELSE IF ~IsIdent(tokens, triggers.index) THEN StatementPanic(triggers.index)
        ELSE LET action_name == tokens[triggers.index].ident
                 at_param == triggers.index + 1
             IN  IF ~(HasCurrent(tokens, at_param) /\ tokens[at_param].kind = "Param")
                 THEN StatementPanic(at_param)
                 ELSE IF tokens[at_param].char # "(" THEN StatementPanic(at_param)
                 ELSE LET params == parse_module_parameters(tokens, at_param)
                      IN  IF params.panic THEN StatementPanic(params.index)
                          ELSE IF Len(triggers.action_tokens) # 1
                          THEN StatementPanic(params.index)
                          ELSE StatementParsed(
                                   StatementInterpret(triggers.action_tokens[1],
                                       ActionNew(action_name, params.params)),
                                   params.index)

\* the first loop of parse_replace (parser.rs:486-493): the identifiers up
\* to `by`, which is gone past
RECURSIVE ReplaceLeft(_, _, _)
ReplaceLeft(tokens, index, lh_tokens) ==
    IF ~IsIdent(tokens, index) THEN [lh_tokens |-> lh_tokens, index |-> index]
    ELSE IF tokens[index].ident = KwBy THEN [lh_tokens |-> lh_tokens, index |-> index + 1]
    ELSE ReplaceLeft(tokens, index + 1, Append(lh_tokens, tokens[index]))

\* the second loop of parse_replace (parser.rs:499-502): the tokens up to
\* the Break; the unwrap of no token is a panic
RECURSIVE ReplaceRight(_, _, _)
ReplaceRight(tokens, index, rh_tokens) ==
    IF ~HasCurrent(tokens, index) THEN [panic |-> TRUE, rh_tokens |-> rh_tokens, index |-> index]
    ELSE IF tokens[index].kind = "Break"
    THEN [panic |-> FALSE, rh_tokens |-> rh_tokens, index |-> index]
    ELSE ReplaceRight(tokens, index + 1, Append(rh_tokens, tokens[index]))

\* parse_replace_statement (parser.rs:511-524)
parse_replace_statement(replace, by) ==
    StatementReplace(Flatten([i \in 1..Len(replace) |-> token_to_string(replace[i])]),
                     Flatten([i \in 1..Len(by) |-> token_to_string(by[i])]))

\* parse_replace (parser.rs:480-509)
parse_replace(tokens, index) ==
    LET left == ReplaceLeft(tokens, index + 1, <<>>)
    IN  IF ~HasCurrent(tokens, left.index) THEN StatementPanic(left.index)
        ELSE LET right == ReplaceRight(tokens, left.index, <<>>)
             IN  IF right.panic THEN StatementPanic(right.index)
                 ELSE StatementParsed(
                          parse_replace_statement(left.lh_tokens, right.rh_tokens),
                          right.index)

\* parse_statement (parser.rs:223-242): the statement of the keyword, then
\* one token further
parse_statement(tokens, index) ==
    IF ~IsIdent(tokens, index) THEN StatementPanic(index)
    ELSE LET ident == tokens[index].ident
             statement ==
                 IF ident = KwReplace THEN parse_replace(tokens, index)
                 ELSE IF ident = KwInterpret THEN parse_interpret(tokens, index)
                 ELSE IF ident = KwLet
                 THEN StatementParsed(StatementDefineVariable, index)
                 ELSE IF ident = KwAxiom THEN parse_axiom(tokens, index)
                 ELSE StatementPanic(index)
         IN  IF statement.panic THEN statement
             ELSE [statement EXCEPT !.index = @ + 1]

\* the loop of parse_lsystem (parser.rs:207-215): [panic, statements]
RECURSIVE Statements(_, _, _)
Statements(tokens, index, statements) ==
    IF ~HasCurrent(tokens, index) THEN [panic |-> FALSE, statements |-> statements]
    ELSE IF tokens[index].kind = "Parentesis" /\ tokens[index].char = "}"
    THEN [panic |-> FALSE, statements |-> statements]
    ELSE LET statement == parse_statement(tokens, index)
         IN  IF statement.panic THEN [panic |-> TRUE, statements |-> statements]
             ELSE Statements(tokens, statement.index,
                             Append(statements, statement.statement))

\* parse_lsystem (parser.rs:201-221): the name, one token gone past
\* unlooked at, the statements
parse_lsystem(tokens, index) ==
    IF ~IsIdent(tokens, index) THEN [panic |-> TRUE]
    ELSE LET parsed == Statements(tokens, index + 2, <<>>)
         IN  IF parsed.panic THEN [panic |-> TRUE]
             ELSE [panic |-> FALSE,
                   item |-> [kind |-> "LSystem", name |-> tokens[index].ident,
                             statements |-> parsed.statements]]

\* parse (parser.rs:181-199) of LexedTokens: [panic, item]
parse(tokens) ==
    IF IsKeyword(tokens, 1, KwLsystem) THEN parse_lsystem(tokens, 2) ELSE [panic |-> TRUE]

----------------------------------------------------------------------------
(* parser.rs: LSystemParser, which builds an LSystem from an Item; and     *)
(* lsystem.rs: LSystemBuilder.  An LSystem value is a record of its        *)
(* fields.                                                                 *)

\* LSystem::new (lsystem.rs:117-129) as a value
LSystemNew(an_axiom, definer) ==
    [axiom |-> an_axiom,
     stochastic_rules |-> EmptyMap,
     generic_stochastic_rules |-> EmptyMap,
     context_sensitive_rules |-> EmptyMap,
     parametric_production_rules |-> EmptyMap,
     alphabet_definer |-> definer,
     name |-> <<>>,
     action_rules |-> <<>>]

\* LSystemParser::lsystem_name (parser.rs:531-534)
lsystem_name(item) == item.name

\* LSystemParser::axiom (parser.rs:536-546): the first Axiom statement, or
\* a panic
parser_axiom(item) ==
    LET axioms == {i \in 1..Len(item.statements) : item.statements[i].kind = "Axiom"}
    IN  IF axioms = {} THEN [panic |-> TRUE]
        ELSE [panic |-> FALSE,
              axiom |-> item.statements[CHOOSE i \in axioms : \A j \in axioms : i <= j].axiom]

\* replacement_rules that registers a rule under the first character of
\* its predecessor
RECURSIVE replacement_rules_by_first_char(_, _)
replacement_rules_by_first_char(statements, lsystem) ==
    IF statements = <<>> THEN lsystem
    ELSE LET statement == Head(statements)
         IN  IF statement.kind = "Replace" /\ statement.replace # <<>>
             THEN replacement_rules_by_first_char(Tail(statements),
                      [lsystem EXCEPT !.generic_stochastic_rules =
                          MapInsert(@, <<statement.replace[1]>>,
                                    [predecessor |-> <<statement.replace[1]>>,
                                     successor |-> statement.by])])
             ELSE replacement_rules_by_first_char(Tail(statements), lsystem)

\* LSystemParser::replacement_rules (parser.rs:548-561): one
\* add_dynamic_stochastic_rule (lsystem.rs:337-342) per Replace statement,
\* in the order of the statements
RECURSIVE replacement_rules(_, _)
replacement_rules(statements, lsystem) ==
    IF statements = <<>> THEN lsystem
    ELSE LET statement == Head(statements)
         IN  IF statement.kind = "Replace"
             THEN replacement_rules(Tail(statements),
                      [lsystem EXCEPT !.generic_stochastic_rules =
                          MapInsert(@, statement.replace,
                                    [predecessor |-> statement.replace,
                                     successor |-> statement.by])])
             ELSE replacement_rules(Tail(statements), lsystem)

\* LSystemParser::interpret_rules (parser.rs:563-574)
interpret_rules(item) ==
    LET interprets == SelectSeq(item.statements, LAMBDA statement : statement.kind = "Interpret")
    IN  [i \in 1..Len(interprets) |-> <<interprets[i].trigger, interprets[i].action>>]

\* LSystemParser::parse (parser.rs:576-587): [panic, lsystem]
LSystemParser_parse(item) ==
    LET found == parser_axiom(item)
    IN  IF found.panic THEN [panic |-> TRUE]
        ELSE LET lsystem == [LSystemNew(found.axiom, "DefaultAlphabetSymbolDefiner")
                                 EXCEPT !.name = lsystem_name(item),
                                        !.action_rules = interpret_rules(item)]
             IN  [panic |-> FALSE, lsystem |-> replacement_rules(item.statements, lsystem)]

\* LSystemBuilder::with_stochastic_rules (lsystem.rs:378-383): one
\* add_stochastic_rule (lsystem.rs:330-335) per pair, in order
RECURSIVE with_stochastic_rules(_, _)
with_stochastic_rules(lsystem, rules) ==
    IF rules = <<>> THEN lsystem
    ELSE with_stochastic_rules(
             [lsystem EXCEPT !.stochastic_rules =
                 MapInsert(@, Head(rules)[1],
                           [predecessor |-> Head(rules)[1], successor |-> Head(rules)[2]])],
             Tail(rules))

----------------------------------------------------------------------------
(* A call of Alphabet::from_string on its own.                             *)

\* Chars of every kind: variables, constants, chars without a mapping.
SampleChars == {"A", "Z", "f", "0", "1", "+", "[", "\\", "U+2227", "a", "(", "2"}

AlphabetStrings ==
    SeqsUpTo(SampleChars, MaxStringLen)
        \cup {<<char>> : char \in UpperCase \cup {"/", "|", "&", "-", "]", ")", ",", "x", " "}}

NoAlphabet == [panic |-> FALSE, symbols |-> <<>>, generation |-> 0, called |-> FALSE]

\* No call of from_string is modelled.
AlphabetIdle ==
    /\ string_arg = <<>>
    /\ generations_arg = 0
    /\ definition_arg = "DefaultAlphabetSymbolDefiner"
    /\ new_alphabet = NoAlphabet

\* The arguments of the call.
InitAlphabet ==
    /\ string_arg \in AlphabetStrings
    /\ generations_arg \in 0..MaxGen
    /\ definition_arg \in {"DefaultAlphabetSymbolDefiner", "DefaultAlphabet"}
    /\ new_alphabet = NoAlphabet

\* Alphabet::from_string (grammar.rs:46-61) is called.
FromString ==
    /\ ~new_alphabet.called
    /\ new_alphabet' = [called |-> TRUE] @@
                    from_string(string_arg, generations_arg, definition_arg)
    /\ UNCHANGED <<string_arg, generations_arg, definition_arg>>
    /\ UNCHANGED exceptAlphabet

----------------------------------------------------------------------------
(* A call of parse_module_parameters on its own.                           *)

Operands == {TokenNumber(1), TokenNumber(2), TokenNumber(3), TokenIdent("x")}
Operators == {TokenSymbol("+"), TokenSymbol("-"), TokenSymbol("*"), TokenSymbol("/")}

\* operand (operator operand)*, with n operands
RECURSIVE Expressions(_)
Expressions(n) ==
    IF n = 1 THEN {<<operand>> : operand \in Operands}
    ELSE {<<operand, operator>> \o rest :
              operand \in Operands, operator \in Operators, rest \in Expressions(n - 1)}

\* what follows the first parameter inside the list
MoreParams ==
    {<<>>,
     <<TokenSymbol(","), TokenNumber(2)>>,
     <<TokenSymbol(","), TokenIdent("x"), TokenSymbol("*"), TokenNumber(2),
       TokenSymbol("-"), TokenNumber(1)>>}

\* '(' expression (',' expression)* ')' and what the statement goes on with
ParamLists ==
    {<<TokenParam("(")>> \o first \o more \o <<TokenParam(")")>> \o rest :
        first \in UNION {Expressions(n) : n \in 1..MaxOperands},
        more \in MoreParams,
        rest \in {<<>>, <<TokenBreak>>}}

\* lists the parser does not accept, nested parentheses and a decimal point
OddLists ==
    {<<>>,
     <<TokenParam(")")>>,
     <<TokenParam("("), TokenParam(")")>>,
     <<TokenParam("("), TokenNumber(1)>>,
     <<TokenParam("("), TokenNumber(1), TokenBreak, TokenParam(")")>>,
     <<TokenParam("("), TokenNumber(1), TokenSymbol("%"), TokenNumber(2), TokenParam(")")>>,
     <<TokenParam("("), TokenNumber(1), TokenSymbol("."), TokenNumber(5), TokenParam(")")>>,
     <<TokenParam("("), TokenNumber(1), TokenSymbol("."), TokenNumber(0), TokenParam(")")>>,
     <<TokenParam("("), TokenNumber(1), TokenSymbol("."), TokenIdent("x"), TokenParam(")")>>,
     <<TokenParam("("), TokenSpace, TokenNumber(1), TokenParam(")")>>,
     <<TokenParam("("), TokenParam("("), TokenNumber(1), TokenSymbol("+"), TokenNumber(2),
       TokenParam(")"), TokenSymbol("*"), TokenNumber(3), TokenParam(")")>>}

NotParsed == [called |-> FALSE, panic |-> FALSE, params |-> <<>>, index |-> 1]

\* No call of parse_module_parameters is modelled.
ParamsIdle ==
    /\ lexed_tokens = <<>>
    /\ module_parameters = NotParsed

\* The tokens of the call; the current token is the first one.
InitParams ==
    /\ lexed_tokens \in ParamLists \cup OddLists
    /\ module_parameters = NotParsed

\* parse_module_parameters (parser.rs:329-367) is called.
ParseModuleParameters ==
    /\ ~module_parameters.called
    /\ module_parameters' = [called |-> TRUE] @@ parse_module_parameters(lexed_tokens, 1)
    /\ UNCHANGED lexed_tokens
    /\ UNCHANGED exceptParams

----------------------------------------------------------------------------
(* The execution of actions on an ExecuteContext (lsystem.rs:317-321), one *)
(* action a step.                                                          *)

\* No ExecuteContext is modelled.
TurtleIdle ==
    /\ turtle = TurtleNew
    /\ transform_stack = <<>>
    /\ aborted = FALSE
    /\ trace = <<>>

\* ExecuteContext::new (lsystem.rs:472-478), or the context of
\* LSystem::execute (lsystem.rs:305-315).
InitContext ==
    /\ turtle \in {TurtleNew}
           \cup {ExecuteContextOf(<<0, 0, 0>>, factor, <<0, 0, z>>) :
                     factor \in {1, 2}, z \in {0, 1}}
    /\ transform_stack = <<>>
    /\ aborted = FALSE
    /\ trace = <<>>

\* An action is about to be executed: the run has not panicked.
Executes(action) ==
    /\ ~aborted
    /\ Len(trace) < MaxSteps
    /\ trace' = Append(trace, [action |-> action, turtle |-> turtle,
                               depth |-> Len(transform_stack)])
    /\ UNCHANGED exceptTurtle

\* RotateZAction::execute (default_actions.rs:13-15)
RotateZAction ==
    /\ Executes("RotateZAction")
    /\ turtle' = rotate_z(turtle, 1)
    /\ UNCHANGED <<transform_stack, aborted>>

\* RotateXAction::execute (default_actions.rs:38-40)
RotateXAction ==
    /\ Executes("RotateXAction")
    /\ turtle' = rotate_x(turtle, 1)
    /\ UNCHANGED <<transform_stack, aborted>>

\* RotateYAction::execute (default_actions.rs:63-65)
RotateYAction ==
    /\ Executes("RotateYAction")
    /\ turtle' = rotate_y(turtle, 1)
    /\ UNCHANGED <<transform_stack, aborted>>

\* MoveForward::execute (examples/glow_egui.rs:22-24)
MoveForward ==
    /\ Executes("MoveForward")
    /\ turtle' = forward(turtle, 1)
    /\ UNCHANGED <<transform_stack, aborted>>

\* PushTranformToStackAction::execute (default_actions.rs:91-93)
PushTranformToStackAction ==
    /\ Executes("PushTranformToStackAction")
    /\ transform_stack' = push(transform_stack, turtle)
    /\ UNCHANGED <<turtle, aborted>>

\* PopTransformFromStackAction::execute (default_actions.rs:115-117): the
\* panic of pop ends the run before the turtle is assigned.
PopTransformFromStackAction ==
    /\ Executes("PopTransformFromStackAction")
    /\ LET popped == pop(transform_stack)
       IN  /\ aborted' = popped.panic
           /\ transform_stack' = popped.transforms
           /\ turtle' = IF popped.panic THEN turtle ELSE popped.turtle

----------------------------------------------------------------------------
(* A call of LSystem::run: an ActionResolver is filled, then the loop of   *)
(* run goes through the alphabet one token at a time.                      *)

\* The alphabets run is called with: the first symbols of these strings.
RunStrings ==
    {<<"[", "F", "]", "F", "+">>, <<"F", "+", "F", "+", "F">>,
     <<"]", "F", "+", "F", "[">>, <<"[", "[", "]", "]", "F">>,
     <<"F", "[", "a", "]", "F">>, <<"+", "[", "F", "]", "]">>,
     <<"[", "+", "]", "[", "F">>, <<"F", "F", "+", "[", "]">>}

RunAlphabets ==
    {[i \in 1..n |-> into_symbol("DefaultAlphabet", word[i])] :
        word \in RunStrings, n \in 0..MaxAlphabetLen}

\* The action rules of the LSystem, as `interpret .. as ..` statements give
\* them (LSystemParser::parse, parser.rs:576-587).
ActionRuleLists ==
    {<< <<"F", ActionNew("MoveForward", <<ActionParamNumber(F32(1))>>)>>,
        <<"+", ActionNew("RotateZAction", <<ActionParamNumber(F32(1))>>)>>,
        <<"[", ActionNew("PushTranformToStackAction", <<>>)>>,
        <<"]", ActionNew("PushTranformToStackAction", <<>>)>> >>,
     << <<"F", ActionNew("RotateXAction",
                  <<BinaryExpr("Add", ActionParamNumber(F32(1)), ActionParamNumber(F32(1)))>>)>>,
        <<"F", ActionNew("MoveForward", <<ActionParamNumber(F32(1))>>)>>,
        <<"+", ActionNew("RotateZAction", <<>>)>>,
        <<"]", ActionNew("PopTransformFromStackAction", <<>>)>> >>,
     << <<"F", ActionNew("MoveForward", <<ActionParamNumber(F32(2))>>)>>,
        <<"+", ActionNew("RotateXAction", <<ActionParamNumber(F32(1))>>)>>,
        <<"[", ActionNew("PushTranformToStackAction", <<>>)>> >>}

\* The calls of add_action_resolver::<A>(trigger).
RegistrationCalls ==
    {<<"MoveForward", into_symbol("DefaultAlphabet", "F")>>,
     <<"RotateXAction", into_symbol("DefaultAlphabet", "F")>>,
     <<"RotateZAction", into_symbol("DefaultAlphabet", "+")>>,
     <<"PushTranformToStackAction", into_symbol("DefaultAlphabet", "[")>>,
     <<"PopTransformFromStackAction", into_symbol("DefaultAlphabet", "]")>>,
     <<"PopTransformFromStackAction", into_symbol("DefaultAlphabet", "[")>>,
     <<"RotateZAction", into_symbol("DefaultAlphabet", "a")>>}

\* No run is modelled.
RunIdle ==
    /\ action_rules = <<>>
    /\ resolver = ActionResolverNew
    /\ registered = <<>>
    /\ alphabet_arg = <<>>
    /\ run_index = 0
    /\ run_context = ExecuteContextNew
    /\ run_panic = FALSE
    /\ executed = <<>>

\* The LSystem, the resolver and the alphabet of the call; run starts with
\* ExecuteContext::new() (lsystem.rs:136).
InitRun ==
    /\ action_rules \in ActionRuleLists
    /\ resolver \in {ClosureResolver, ActionResolverNew}
    /\ registered = <<>>
    /\ alphabet_arg \in RunAlphabets
    /\ run_index = 0
    /\ run_context = ExecuteContextNew
    /\ run_panic = FALSE
    /\ executed = <<>>

\* ActionResolver::add_action_resolver::<A>(trigger) (action.rs:13-25),
\* called before the resolver is lent to run.
AddActionResolver ==
    /\ resolver.kind = "ActionResolver"
    /\ run_index = 0
    /\ ~run_panic
    /\ Len(registered) < MaxResolvers
    /\ \E call \in RegistrationCalls :
          /\ resolver' = [resolver EXCEPT
                             !.actions = add_action_resolver(@, call[1], call[2])]
          /\ registered' = Append(registered, call)
    /\ UNCHANGED <<action_rules, alphabet_arg, run_index, run_context, run_panic, executed>>
    /\ UNCHANGED exceptRun

\* One turn of `for token in alphabet.iter()` (lsystem.rs:138-162).
RunStep ==
    /\ ~run_panic
    /\ run_index < Len(alphabet_arg)
    /\ LET token == alphabet_arg[run_index + 1]
           turn == RunToken(action_rules, resolver, token, run_context)
       IN  /\ run_panic' = turn.panic
           /\ run_index' = IF turn.panic THEN run_index ELSE run_index + 1
           /\ run_context' = turn.context
           /\ executed' = IF turn.executed
                          THEN Append(executed, [index |-> run_index + 1,
                                                 action |-> turn.action])
                          ELSE executed
    /\ UNCHANGED <<action_rules, resolver, registered, alphabet_arg>>
    /\ UNCHANGED exceptRun

----------------------------------------------------------------------------
(* A script is lexed, then its tokens are parsed (as LSystemParser's       *)
(* callers do: Lexer::lex, LexedTokens::new, parse).                       *)

\* The parts scripts are put together from: a heading, statements each
\* after a space, an ending.

\* lsystem X {
HeadBlock ==
    <<"l", "s", "y", "s", "t", "e", "m", " ", "X", " ", "{">>

\* lsystem X
HeadNoBrace ==
    <<"l", "s", "y", "s", "t", "e", "m", " ", "X">>

\* system X {
HeadNoKeyword ==
    <<"s", "y", "s", "t", "e", "m", " ", "X", " ", "{">>

\* } after a space
EndBlock == <<" ", "}">>

\* nothing: the block is left open
EndOpen == <<>>

\* axiom F;
StmtAxiom ==
    <<"a", "x", "i", "o", "m", " ", "F", ";">>

\* replace F by F+G;
StmtReplace ==
    <<"r", "e", "p", "l", "a", "c", "e", " ", "F", " ", "b", "y", " ", "F",
      "+", "G", ";">>

\* replace F;
StmtReplaceNoBy ==
    <<"r", "e", "p", "l", "a", "c", "e", " ", "F", ";">>

\* replace F +G;
StmtReplaceNoBySuccessor ==
    <<"r", "e", "p", "l", "a", "c", "e", " ", "F", " ", "+", "G", ";">>

\* let x = 5;
StmtLet ==
    <<"l", "e", "t", " ", "x", " ", "=", " ", "5", ";">>

\* let
StmtLetAlone ==
    <<"l", "e", "t">>

\* interpret A B as R(1);
StmtInterpretTwo ==
    <<"i", "n", "t", "e", "r", "p", "r", "e", "t", " ", "A", " ", "B", " ",
      "a", "s", " ", "R", "(", "1", ")", ";">>

\* interpret AB as R(1);
StmtInterpretAdjacent ==
    <<"i", "n", "t", "e", "r", "p", "r", "e", "t", " ", "A", "B", " ", "a",
      "s", " ", "R", "(", "1", ")", ";">>

\* interpret F as R(1+2);
StmtInterpretAdd ==
    <<"i", "n", "t", "e", "r", "p", "r", "e", "t", " ", "F", " ", "a", "s",
      " ", "R", "(", "1", "+", "2", ")", ";">>

\* interpret F as R(1 op 2); for an operator character
StmtInterpretOp(op) ==
    <<"i", "n", "t", "e", "r", "p", "r", "e", "t", " ", "F", " ", "a", "s", " ",
      "R", "(", "1", op, "2", ")", ";">>

\* the operators other than + - * / (abs.rs:90-98, 108-116)
OtherOperators == {"%", "^", "&", "|", "<", ">"}

ScriptHeads == {HeadBlock, HeadNoBrace}
ScriptEnds == {EndBlock, EndOpen}
ScriptStatements ==
    {StmtAxiom, StmtReplace, StmtReplaceNoBy, StmtReplaceNoBySuccessor, StmtLet,
     StmtLetAlone, StmtInterpretTwo, StmtInterpretAdjacent, StmtInterpretAdd}
    \cup {StmtInterpretOp(op) : op \in OtherOperators}

\* the characters of the short scripts
ScriptChars == {"F", "b", "+", " ", "\n", "1", "0", ".", "%", ";"}

\* the text of a script made of parts
ScriptText(parts) ==
    parts.head
    \o Flatten([i \in 1..Len(parts.statements) |-> <<" ">> \o parts.statements[i]])
    \o parts.end

\* the characters of the test symbol_lexer (tests/lexer.rs:82)
SymbolTestChars == {"+", "-", "*", "/", ">", "<", "&", "|", "\\", "^", "=", "."}

\* one of them on its own, or two with a space in between
SymbolTexts ==
    {<<char>> : char \in SymbolTestChars}
    \cup {<<char, " ", other>> : char \in SymbolTestChars, other \in SymbolTestChars}

Scripts ==
    {[head |-> head, statements |-> statements, end |-> end] :
        head \in ScriptHeads, statements \in SeqsUpTo(ScriptStatements, MaxStatements),
        end \in ScriptEnds}
    \cup {[head |-> HeadNoKeyword, statements |-> <<statement>>, end |-> EndBlock] :
              statement \in ScriptStatements}
    \cup {[head |-> text, statements |-> <<>>, end |-> <<>>] :
              text \in SeqsUpTo(ScriptChars, MaxScriptLen)}
    \cup {[head |-> text, statements |-> <<>>, end |-> <<>>] : text \in SymbolTexts}

NotLexed == [status |-> "none"]
NoItem == [status |-> "none"]

\* No script is modelled.
ScriptIdle ==
    /\ script_parts = [head |-> <<>>, statements |-> <<>>, end |-> <<>>]
    /\ script_arg = <<>>
    /\ lex_result = NotLexed
    /\ parse_result = NoItem

\* The script handed to Lexer::lex.
InitScript ==
    /\ script_parts \in Scripts
    /\ script_arg = ScriptText(script_parts)
    /\ lex_result = NotLexed
    /\ parse_result = NoItem

\* Lexer::lex (lexer.rs:87-94)
Lex ==
    /\ lex_result = NotLexed
    /\ lex_result' = [status |-> "done"] @@ lex(script_arg)
    /\ UNCHANGED <<script_parts, script_arg, parse_result>>
    /\ UNCHANGED exceptScript

\* parse(LexedTokens::new(lex)) (parser.rs:151-159, 181-199)
Parse ==
    /\ lex_result # NotLexed
    /\ ~lex_result.panic
    /\ parse_result = NoItem
    /\ parse_result' = [status |-> "done"] @@ parse(LexedTokensNew(lex_result.tokens))
    /\ UNCHANGED <<script_parts, script_arg, lex_result>>
    /\ UNCHANGED exceptScript

----------------------------------------------------------------------------
(* A script with an axiom and replace statements is made into an LSystem   *)
(* by Lexer::lex, parse and LSystemParser::parse; and an LSystem with the  *)
(* same axiom is built by hand with add_stochastic_rule.                   *)

\* axiom FG;
StmtAxiomTwo ==
    <<"a", "x", "i", "o", "m", " ", "F", "G", ";">>

\* replace G by F;
StmtReplaceG ==
    <<"r", "e", "p", "l", "a", "c", "e", " ", "G", " ", "b", "y", " ", "F", ";">>

\* replace F by GG;
StmtReplaceAgain ==
    <<"r", "e", "p", "l", "a", "c", "e", " ", "F", " ", "b", "y", " ", "G", "G", ";">>

\* replace F G by G;
StmtReplaceMulti ==
    <<"r", "e", "p", "l", "a", "c", "e", " ", "F", " ", "G", " ", "b", "y", " ", "G", ";">>

\* replace G by;
StmtReplaceErase ==
    <<"r", "e", "p", "l", "a", "c", "e", " ", "G", " ", "b", "y", ";">>

\* replace F by F+F-F-F+F;  (tests/lsystem.rs:175)
StmtReplaceKoch ==
    <<"r", "e", "p", "l", "a", "c", "e", " ", "F", " ", "b", "y", " ",
      "F", "+", "F", "-", "F", "-", "F", "+", "F", ";">>

ReplaceStatements ==
    {StmtReplace, StmtReplaceG, StmtReplaceAgain, StmtReplaceMulti, StmtReplaceErase,
     StmtReplaceKoch}

\* an axiom, then replace statements; or no axiom; or the axiom last
BuildScripts ==
    {[head |-> HeadBlock, statements |-> <<an_axiom>> \o replaces, end |-> EndBlock] :
        an_axiom \in {StmtAxiom, StmtAxiomTwo},
        replaces \in SeqsUpTo(ReplaceStatements, MaxStatements)}
    \cup {[head |-> HeadBlock, statements |-> statements, end |-> EndBlock] :
              statements \in {<<StmtReplace>>, <<StmtReplaceG, StmtAxiomTwo>>}}

NoLSystem == [status |-> "none"]
NotYet == [status |-> "none"]

\* No LSystem is built.
BuildIdle ==
    /\ parser_lsystem = NoLSystem
    /\ builder_lsystem = NoLSystem

\* The script handed to Lexer::lex.
InitBuildScript ==
    /\ script_parts \in BuildScripts
    /\ script_arg = ScriptText(script_parts)
    /\ lex_result = NotLexed
    /\ parse_result = NoItem

\* the (char, &str) pairs of the Replace statements of one character
StochasticPairs(statements) ==
    LET replaces == SelectSeq(statements,
                        LAMBDA statement : statement.kind = "Replace"
                                           /\ Len(statement.replace) = 1)
    IN  [i \in 1..Len(replaces) |-> <<replaces[i].replace[1], replaces[i].by>>]

\* LSystemParser::parse(item) (parser.rs:576-587)
ParserParse ==
    /\ parse_result # NoItem
    /\ ~parse_result.panic
    /\ parser_lsystem = NoLSystem
    /\ LET built == LSystemParser_parse(parse_result.item)
       IN  parser_lsystem' =
               IF built.panic THEN [status |-> "panic"]
               ELSE [status |-> "built", lsystem |-> built.lsystem, generated |-> NotYet]
    /\ UNCHANGED <<builder_lsystem, scriptVars>>
    /\ UNCHANGED exceptBuild

\* LSystem::new with the axiom of the script's system, then
\* add_stochastic_rule for each replace statement of one character
\* (tests/lsystem.rs:100-101)
BuilderBuild ==
    /\ parser_lsystem # NoLSystem
    /\ parser_lsystem.status = "built"
    /\ builder_lsystem = NoLSystem
    /\ builder_lsystem' =
           [status |-> "built",
            lsystem |-> with_stochastic_rules(
                            LSystemNew(parser_lsystem.lsystem.axiom,
                                       "DefaultAlphabetSymbolDefiner"),
                            StochasticPairs(parse_result.item.statements)),
            generated |-> NotYet]
    /\ UNCHANGED <<parser_lsystem, scriptVars>>
    /\ UNCHANGED exceptBuild

\* lsystem.generate(generations) on the system of the script
GenerateParsed ==
    /\ parser_lsystem.status = "built"
    /\ \E generations \in 0..MaxGen :
          parser_lsystem' =
              [parser_lsystem EXCEPT !.generated = generate(parser_lsystem.lsystem, generations)]
    /\ UNCHANGED <<builder_lsystem, scriptVars>>
    /\ UNCHANGED exceptBuild

\* lsystem.generate(generations) on the system built by hand
GenerateBuilt ==
    /\ builder_lsystem.status = "built"
    /\ \E generations \in 0..MaxGen :
          builder_lsystem' =
              [builder_lsystem EXCEPT !.generated = generate(builder_lsystem.lsystem, generations)]
    /\ UNCHANGED <<parser_lsystem, scriptVars>>
    /\ UNCHANGED exceptBuild

----------------------------------------------------------------------------
(* Runs of one LSystem whose interpret bindings hold Random parameters,    *)
(* each run on a fresh ExecuteContext.                                     *)

\* the states the generator may be in when the first run starts
RngStates == 0..7

RandomRuleLists ==
    {<< <<"F", ActionNew("RotateZAction", <<RandomExpr(F32(0), F32(4))>>)>> >>,
     << <<"F", ActionNew("RotateZAction", <<RandomExpr(F32(0), F32(4))>>)>>,
        <<"G", ActionNew("MoveForward",
                  <<BinaryExpr("Add", RandomExpr(F32(0), F32(2)),
                               ActionParamNumber(F32(1)))>>)>> >>,
     << <<"F", ActionNew("RotateZAction", <<ActionParamNumber(F32(1))>>)>>,
        <<"G", ActionNew("MoveForward", <<RandomExpr(F32(1), F32(3))>>)>> >>}

RandomAlphabets ==
    {[i \in 1..Len(word) |-> into_symbol("DefaultAlphabet", word[i])] :
        word \in SeqsUpTo({"F", "G"}, MaxAlphabetLen)}

\* the ActionResolver of the runs: RotateZAction for F, MoveForward for G
RandomResolver ==
    add_action_resolver(
        add_action_resolver(EmptyMap, "RotateZAction", into_symbol("DefaultAlphabet", "F")),
        "MoveForward", into_symbol("DefaultAlphabet", "G"))

\* No such run is modelled.
RandomIdle ==
    /\ rng = 0
    /\ random_rules = <<>>
    /\ random_alphabet = <<>>
    /\ random_runs = <<>>

InitRandom ==
    /\ rng \in RngStates
    /\ random_rules \in RandomRuleLists
    /\ random_alphabet \in RandomAlphabets
    /\ random_runs = <<>>

\* lsystem.run(&resolver, &alphabet) (lsystem.rs:131-164): a whole run on
\* ExecuteContext::new()
RunRandom ==
    /\ Len(random_runs) < 2
    /\ LET run == RunRandomFrom(random_rules, RandomResolver, random_alphabet, 1,
                                ExecuteContextNew, rng, <<>>)
       IN  /\ rng' = run.rng
           /\ random_runs' = Append(random_runs,
                  [panic |-> run.panic, context |-> run.context, draws |-> run.draws])
    /\ UNCHANGED <<random_rules, random_alphabet>>
    /\ UNCHANGED exceptRandom

----------------------------------------------------------------------------
(* apply_rules_recursive (lsystem.rs:204-296) step by step.  A call in     *)
(* progress is a record of its locals: symbols, symbol_index,              *)
(* generations_left, symbol and, during recursively_iterate_params, params;*)
(* `at` is the place the call is at, and last_head (not in the code) the   *)
(* value of symbol_index at the start of the turn of the loop before.      *)

\* the call made with a successor as if it had the generations of its caller
SuccessorCallSameGeneration(successor, generations_left) ==
    [symbols |-> successor, symbol_index |-> 0, generations_left |-> generations_left,
     at |-> "entry", symbol |-> "", params |-> <<>>, last_head |-> -1]

\* Self::apply_rules_recursive(result.to_string(), .., generations_left - 1)
\* (lsystem.rs:249-257, 262-270, 275-283)
SuccessorCall(successor, generations_left) ==
    [symbols |-> successor, symbol_index |-> 0, generations_left |-> generations_left - 1,
     at |-> "entry", symbol |-> "", params |-> <<>>, last_head |-> -1]

\* the call generate makes (lsystem.rs:173-181)
FirstCall(symbols, generations) ==
    [symbols |-> symbols, symbol_index |-> 0, generations_left |-> generations,
     at |-> "entry", symbol |-> "", params |-> <<>>, last_head |-> -1]

\* the rule tables of the scans
ScanRuleSets ==
    LET rule(predecessor, successor) == [predecessor |-> predecessor, successor |-> successor]
        none == [grammar_rules |-> EmptyMap, context_sensitive_rules |-> EmptyMap,
                 parametic_rules |-> EmptyMap, generic_rules |-> EmptyMap]
    IN  {none,
         [none EXCEPT !.grammar_rules =
             MapInsert(MapInsert(EmptyMap, "A", rule("A", <<"A", "B">>)),
                       "B", rule("B", <<"A">>))],
         [none EXCEPT !.grammar_rules = MapInsert(EmptyMap, "A", rule("A", <<>>))],
         [none EXCEPT !.grammar_rules = MapInsert(EmptyMap, "B", rule("B", <<"A", "C">>)),
                      !.generic_rules =
                          MapInsert(EmptyMap, <<"C">>, rule(<<"C">>, <<"C", "A">>))],
         [none EXCEPT !.context_sensitive_rules =
                          MapInsert(EmptyMap, "A", "between_B_and_C")],
         [none EXCEPT !.grammar_rules = MapInsert(EmptyMap, "B", rule("B", <<"A", "B">>)),
                      !.parametic_rules = MapInsert(EmptyMap, "A", "successor")]}

\* the axioms of the scans: plain ones, and ones with a module that is
\* closed, empty or left open
ScanAxioms ==
    {<<>>, <<"A">>, <<"A", "B">>, <<"B", "A", "C">>, <<"C", "A">>, <<"A", "A", "B">>,
     <<"A", "(", "0", ")">>, <<"A", "(", "0", ",", "1", ")", "B">>,
     <<"A", "(", "0", ")", "B", "C">>, <<"B", "A", "(", "0", ",", "1", ")", "B", "B">>,
     <<"A", "(">>, <<"A", "(", ")">>, <<"B", "A", "(", "0", ",", "1">>,
     <<"A", "(", ")", "B", ")">>}

\* No scan is modelled.
ScanIdle ==
    /\ scan_rules = RulesOf(LSystemNew(<<>>, "DefaultAlphabetSymbolDefiner"))
    /\ scan_axiom = <<>>
    /\ scan_generations = 0
    /\ call_stack = <<>>
    /\ string_result = <<>>
    /\ scan_status = "returned"

\* generate (lsystem.rs:168-181): result is empty and the first call is made
InitScan ==
    /\ scan_rules \in ScanRuleSets
    /\ scan_axiom \in ScanAxioms
    /\ scan_generations \in 0..MaxGen
    /\ call_stack = <<FirstCall(scan_axiom, scan_generations)>>
    /\ string_result = <<>>
    /\ scan_status = "running"

\* the innermost call
Top == call_stack[Len(call_stack)]

\* the innermost call goes on as `call`
GoOn(call) ==
    /\ call_stack' = [call_stack EXCEPT ![Len(call_stack)] = call]
    /\ scan_status' = scan_status

\* the innermost call returns; the first call returns to generate
ReturnFromCall ==
    /\ call_stack' = SubSeq(call_stack, 1, Len(call_stack) - 1)
    /\ scan_status' = IF Len(call_stack) = 1 THEN "returned" ELSE "running"

\* a panic unwinds every call
PanicInCall ==
    /\ call_stack' = <<>>
    /\ scan_status' = "panic"

\* the start of a call (lsystem.rs:213-224)
ScanEntry ==
    /\ scan_status = "running" /\ Top.at = "entry"
    /\ IF Top.generations_left = 0
       THEN string_result' = string_result \o Top.symbols /\ ReturnFromCall
       ELSE IF Len(Top.symbols) = 0
       THEN string_result' = string_result /\ ReturnFromCall
       ELSE string_result' = string_result /\ GoOn([Top EXCEPT !.at = "loop"])
    /\ UNCHANGED <<scan_rules, scan_axiom, scan_generations>>
    /\ UNCHANGED exceptScan

\* the start of a turn of the loop (lsystem.rs:227-232): symbol is read,
\* and a '(' after it starts the argument scan two characters further
ScanLoopHead ==
    /\ scan_status = "running" /\ Top.at = "loop"
    /\ LET index == Top.symbol_index
           symbol == Top.symbols[index + 1]
           is_module == index + 1 <= Len(Top.symbols) - 1 /\ Top.symbols[index + 2] = "("
       IN  GoOn([Top EXCEPT !.symbol = symbol,
                            !.last_head = index,
                            !.params = <<>>,
                            !.symbol_index = IF is_module THEN index + 2 ELSE index,
                            !.at = IF is_module THEN "params" ELSE "chain"])
    /\ UNCHANGED <<scan_rules, scan_axiom, scan_generations, string_result>>
    /\ UNCHANGED exceptScan

\* one turn of the loop of recursively_iterate_params (lsystem.rs:191-201)
\* and, when it returns, the rest of the module branch (lsystem.rs:236-244)
ScanParam ==
    /\ scan_status = "running" /\ Top.at = "params"
    /\ LET index == Top.symbol_index + 1
       IN  IF index > Len(Top.symbols) - 1
           THEN string_result' = string_result /\ PanicInCall
           ELSE LET current_symbol == Top.symbols[index + 1]
                    has_rule == Top.symbol \in DOMAIN scan_rules.parametic_rules
                    result == IF has_rule
                              THEN ParametricApply(scan_rules.parametic_rules[Top.symbol],
                                                   Top.symbol, Top.params)
                              ELSE None
                    after == index + 2
                IN  IF current_symbol = ")"
                    THEN /\ string_result' =
                                string_result \o (IF result.some THEN result.value ELSE <<>>)
                         /\ IF after > Len(Top.symbols) - 1 THEN ReturnFromCall
                            ELSE GoOn([Top EXCEPT !.symbol_index = after, !.at = "chain"])
                    ELSE /\ string_result' = string_result
                         /\ GoOn([Top EXCEPT !.symbol_index = index,
                                             !.params = IF current_symbol # ","
                                                        THEN Append(@, current_symbol)
                                                        ELSE @])
    /\ UNCHANGED <<scan_rules, scan_axiom, scan_generations>>
    /\ UNCHANGED exceptScan

\* the if / else-if chain (lsystem.rs:246-288) for `symbol`: a rule that
\* gives a successor makes a call with it, of which this call awaits the
\* return
ScanChain ==
    /\ scan_status = "running" /\ Top.at = "chain"
    /\ LET kind == RuleKindFor(scan_rules, Top.symbol)
           waiting == [Top EXCEPT !.at = "advance"]
           cb == IF kind = "context"
                 THEN ContextSensitiveApply(scan_rules.context_sensitive_rules[Top.symbol],
                                            Top.symbol, Top.symbol_index, Top.symbols)
                 ELSE [panic |-> FALSE, result |-> None]
           result == CASE kind = "stochastic" ->
                             StochasticApply(scan_rules.grammar_rules[Top.symbol], Top.symbol)
                        [] kind = "context" -> cb.result
                        [] kind = "generic" ->
                             GenericApply(generic_rules_get(scan_rules.generic_rules,
                                                            Top.symbol).value,
                                          <<Top.symbol>>)
                        [] OTHER -> None
       IN  IF cb.panic THEN string_result' = string_result /\ PanicInCall
           ELSE IF result.some
           THEN /\ string_result' = string_result
                /\ call_stack' = Append([call_stack EXCEPT ![Len(call_stack)] = waiting],
                                        SuccessorCall(result.value, Top.generations_left))
                /\ scan_status' = scan_status
           ELSE /\ string_result' =
                       string_result \o (IF kind = "identity" THEN <<Top.symbol>> ELSE <<>>)
                /\ GoOn(waiting)
    /\ UNCHANGED <<scan_rules, scan_axiom, scan_generations>>
    /\ UNCHANGED exceptScan

\* the end of a turn of the loop (lsystem.rs:290-294)
ScanAdvance ==
    /\ scan_status = "running" /\ Top.at = "advance"
    /\ IF Top.symbol_index + 1 > Len(Top.symbols) - 1 THEN ReturnFromCall
       ELSE GoOn([Top EXCEPT !.symbol_index = @ + 1, !.at = "loop"])
    /\ UNCHANGED <<scan_rules, scan_axiom, scan_generations, string_result>>
    /\ UNCHANGED exceptScan

----------------------------------------------------------------------------
(* lsystem.rs: LSystemDefinition, LSystemKey, LSystemFactory.              *)

\* HashMap::entry(key).or_insert_with that overwrites the value of the key
entry_insert(map, key, value) == MapInsert(map, key, value)

\* HashMap::entry(key).or_insert_with(|| value) (lsystem.rs:435-438,
\* 450-453): the value is inserted only when the key has none
entry_or_insert_with(map, key, value) ==
    IF key \in DOMAIN map THEN map ELSE MapInsert(map, key, value)

\* LSystemKey(definition.name(), generation) (lsystem.rs:412-413, 433, 449)
LSystemKey(definition, generation) == <<definition.name, generation>>

\* An action the user of the crate implements for the element type T
\* (LSystemAction<T>::execute, lsystem.rs:364): it moves the turtle forward
\* and pushes it on context.elements.
DrawForward(context) ==
    LET moved == forward(context.turtle, 1)
    IN  [context EXCEPT !.turtle = moved, !.elements = Append(@, moved)]

\* the loop of LSystem::execute (lsystem.rs:317-321): the action a letter
\* is a key of is executed, a letter without an action is passed over
RECURSIVE ExecuteLetters(_, _, _)
ExecuteLetters(actions, letters, context) ==
    IF letters = <<>> THEN context
    ELSE LET letter == Head(letters)
             after == IF letter \notin DOMAIN actions THEN context
                      ELSE IF actions[letter].type = "DrawForward" THEN DrawForward(context)
                      ELSE execute(actions[letter], context).context
         IN  ExecuteLetters(actions, Tail(letters), after)

\* LSystem::execute (lsystem.rs:298-324): the elements of the context
lsystem_execute(actions, origin, factor, rotation, alphabet) ==
    ExecuteLetters(actions, alphabet.symbols,
                   [elements |-> <<>>, transform_stack |-> <<>>,
                    turtle |-> ExecuteContextOf(origin, factor, rotation)]).elements

\* The definitions handed to the factory (impl LSystemDefinition<T>): a
\* name, an LSystem and the actions add_action gave it (lsystem.rs:326-328).
\* Two of them have the same name; one has an axiom that Alphabet::from_string
\* does not map.
FactoryActions ==
    MapInsert(MapInsert(EmptyMap, into_symbol("DefaultAlphabetSymbolDefiner", "F"),
                        [type |-> "DrawForward"]),
              into_symbol("DefaultAlphabetSymbolDefiner", "+"),
              [type |-> "RotateZAction", value |-> Finite(F32(1))])

FactoryDefinitions ==
    {[name |-> "Koch",
      lsystem |-> with_stochastic_rules(LSystemNew(<<"F">>, "DefaultAlphabetSymbolDefiner"),
                                        <<<<"F", <<"F", "+", "F">>>>>>),
      actions |-> FactoryActions],
     [name |-> "Koch",
      lsystem |-> with_stochastic_rules(LSystemNew(<<"F", "+">>, "DefaultAlphabetSymbolDefiner"),
                                        <<<<"F", <<"F", "F">>>>>>),
      actions |-> FactoryActions],
     [name |-> "Unmapped",
      lsystem |-> LSystemNew(<<"F", "x">>, "DefaultAlphabetSymbolDefiner"),
      actions |-> FactoryActions]}

FactoryGenerations == {0, MaxGen}

\* position, rotation and scale of a render
FactoryPoses ==
    {[position |-> <<0, 0, 0>>, rotation |-> <<0, 0, 0>>, scale |-> 1],
     [position |-> <<1, 0, 0>>, rotation |-> <<0, 0, 1>>, scale |-> 2]}

NoPose == [position |-> <<0, 0, 0>>, rotation |-> <<0, 0, 0>>, scale |-> 0]

\* LSystemFactory::new (lsystem.rs:421-426)
FactoryIdle ==
    /\ lsystems_alphabets = EmptyMap
    /\ lsystems_meshes = EmptyMap
    /\ factory_calls = <<>>

\* LSystemFactory::generate (lsystem.rs:428-439).  A panic of
\* LSystem::generate in the closure leaves the map as it was.
FactoryGenerate ==
    /\ Len(factory_calls) < MaxCalls
    /\ \E definition \in FactoryDefinitions, generation \in FactoryGenerations :
          LET key == LSystemKey(definition, generation)
              computed == IF key \in DOMAIN lsystems_alphabets
                          THEN [status |-> "returned",
                                alphabet |-> lsystems_alphabets[key]]
                          ELSE generate(definition.lsystem, generation)
              panicked == computed.status = "panic"
          IN  /\ lsystems_alphabets' =
                    IF panicked THEN lsystems_alphabets
                    ELSE entry_or_insert_with(lsystems_alphabets, key, computed.alphabet)
              /\ factory_calls' =
                    Append(factory_calls,
                           [op |-> "generate", definition |-> definition,
                            generation |-> generation, pose |-> NoPose,
                            panic |-> panicked,
                            returned |-> IF panicked THEN None
                                         ELSE Some(lsystems_alphabets'[key])])
    /\ UNCHANGED lsystems_meshes
    /\ UNCHANGED exceptFactory

\* LSystemFactory::render (lsystem.rs:441-459)
FactoryRender ==
    /\ Len(factory_calls) < MaxCalls
    /\ \E definition \in FactoryDefinitions, generation \in FactoryGenerations,
          pose \in FactoryPoses :
          LET key == LSystemKey(definition, generation)
              found == key \in DOMAIN lsystems_alphabets
          IN  /\ lsystems_meshes' =
                    IF found
                    THEN entry_or_insert_with(
                             lsystems_meshes, key,
                             lsystem_execute(definition.actions, pose.position, pose.scale,
                                             pose.rotation, lsystems_alphabets[key]))
                    ELSE lsystems_meshes
              /\ factory_calls' =
                    Append(factory_calls,
                           [op |-> "render", definition |-> definition,
                            generation |-> generation, pose |-> pose,
                            panic |-> FALSE,
                            returned |-> IF found THEN Some(lsystems_meshes'[key])
                                         ELSE None])
    /\ UNCHANGED lsystems_alphabets
    /\ UNCHANGED exceptFactory

----------------------------------------------------------------------------
(* The idle values of what a specification does not exercise.              *)

\* No LSystem is modelled.
LSystemIdle ==
    /\ axiom = <<>>
    /\ alphabet_definer = "DefaultAlphabetSymbolDefiner"
    /\ stochastic_rules = EmptyMap
    /\ generic_stochastic_rules = EmptyMap
    /\ context_sensitive_rules = EmptyMap
    /\ parametric_production_rules = EmptyMap
    /\ generated = NotGenerated

----------------------------------------------------------------------------
(* The specifications.                                                     *)

\* The rewriting engine: an LSystem is built, rules are added, generate is
\* called.
Init == InitLSystem /\ AlphabetIdle /\ ParamsIdle /\ TurtleIdle /\ RunIdle /\ ScriptIdle /\ BuildIdle /\ RandomIdle /\ ScanIdle /\ FactoryIdle

Next ==
    \/ AddStochasticRule
    \/ AddDynamicStochasticRule
    \/ AddContextSensitiveRule
    \/ AddParametricRule
    \/ CallGenerate

Spec == Init /\ [][Next]_vars

\* Alphabet::from_string applied to a string.
InitFromString == LSystemIdle /\ InitAlphabet /\ ParamsIdle /\ TurtleIdle /\ RunIdle /\ ScriptIdle /\ BuildIdle /\ RandomIdle /\ ScanIdle /\ FactoryIdle

NextFromString == FromString

SpecAlphabet == InitFromString /\ [][NextFromString]_vars

\* parse_module_parameters applied to a token list.
InitParseParams == LSystemIdle /\ AlphabetIdle /\ InitParams /\ TurtleIdle /\ RunIdle /\ ScriptIdle /\ BuildIdle /\ RandomIdle /\ ScanIdle /\ FactoryIdle

NextParseParams == ParseModuleParameters

SpecParams == InitParseParams /\ [][NextParseParams]_vars

\* Actions executed on an ExecuteContext.
InitExecute == LSystemIdle /\ AlphabetIdle /\ ParamsIdle /\ InitContext /\ RunIdle /\ ScriptIdle /\ BuildIdle /\ RandomIdle /\ ScanIdle /\ FactoryIdle

NextExecute ==
    \/ RotateZAction
    \/ RotateXAction
    \/ RotateYAction
    \/ MoveForward
    \/ PushTranformToStackAction
    \/ PopTransformFromStackAction

SpecTurtle == InitExecute /\ [][NextExecute]_vars

\* LSystem::run applied to an alphabet.
InitCallRun ==
    LSystemIdle /\ AlphabetIdle /\ ParamsIdle /\ TurtleIdle /\ InitRun /\ ScriptIdle /\ BuildIdle /\ RandomIdle /\ ScanIdle /\ FactoryIdle

NextRun ==
    \/ AddActionResolver
    \/ RunStep

SpecRun == InitCallRun /\ [][NextRun]_vars

\* A script is lexed and parsed.
InitLexParse ==
    LSystemIdle /\ AlphabetIdle /\ ParamsIdle /\ TurtleIdle /\ RunIdle /\ InitScript /\ BuildIdle /\ RandomIdle /\ ScanIdle /\ FactoryIdle

NextLexParse ==
    \/ Lex
    \/ Parse

SpecScript == InitLexParse /\ [][NextLexParse]_vars

\* A script is made into an LSystem, a second one is built by hand, both
\* generate.
InitBuild ==
    LSystemIdle /\ AlphabetIdle /\ ParamsIdle /\ TurtleIdle /\ RunIdle /\ InitBuildScript /\ BuildIdle /\ RandomIdle /\ ScanIdle /\ FactoryIdle

NextBuild ==
    \/ Lex
    \/ Parse
    \/ ParserParse
    \/ BuilderBuild
    \/ GenerateParsed
    \/ GenerateBuilt

SpecBuild == InitBuild /\ [][NextBuild]_vars

\* One LSystem with Random parameters is run twice.
InitRunRandom ==
    LSystemIdle /\ AlphabetIdle /\ ParamsIdle /\ TurtleIdle /\ RunIdle /\ ScriptIdle /\ BuildIdle /\ InitRandom /\ ScanIdle /\ FactoryIdle

NextRunRandom == RunRandom

SpecRandom == InitRunRandom /\ [][NextRunRandom]_vars

\* apply_rules_recursive runs step by step; a step that can be taken is
\* taken (the program runs on).
InitApplyRules ==
    LSystemIdle /\ AlphabetIdle /\ ParamsIdle /\ TurtleIdle /\ RunIdle /\ ScriptIdle /\ BuildIdle /\ RandomIdle /\ InitScan /\ FactoryIdle

NextScan ==
    \/ ScanEntry
    \/ ScanLoopHead
    \/ ScanParam
    \/ ScanChain
    \/ ScanAdvance

SpecScan == InitApplyRules /\ [][NextScan]_vars /\ WF_vars(NextScan)

\* Calls of generate and render on one LSystemFactory.
InitFactory ==
    LSystemIdle /\ AlphabetIdle /\ ParamsIdle /\ TurtleIdle /\ RunIdle /\ ScriptIdle /\ BuildIdle /\ RandomIdle /\ ScanIdle /\ FactoryIdle

NextFactory ==
    \/ FactoryGenerate
    \/ FactoryRender

SpecFactory == InitFactory /\ [][NextFactory]_vars

----------------------------------------------------------------------------
(* The claims about generate.                                              *)

Returned == generated.status = "returned"
Called == generated.status # "none"
LogEvents == {generated.log[i] : i \in 1..Len(generated.log)}
Mapped(definer, char) == into_symbol(definer, char).kind # "panic"

\* The system holds only context-free rules keyed by one character, and no
\* string of it holds a '('.
ContextFree ==
    /\ context_sensitive_rules = EmptyMap
    /\ parametric_production_rules = EmptyMap
    /\ \A k \in DOMAIN generic_stochastic_rules : Len(k) = 1
    /\ \A i \in 1..Len(axiom) : axiom[i] # "("

\* The successor classic rewriting gives a symbol: that of its rule, or the
\* symbol itself when it has no rule.
ClassicSuccessor(symbol) ==
    IF symbol \in DOMAIN stochastic_rules THEN stochastic_rules[symbol].successor
    ELSE IF <<symbol>> \in DOMAIN generic_stochastic_rules
         THEN generic_stochastic_rules[<<symbol>>].successor
    ELSE <<symbol>>

\* One synchronized round: every symbol of the whole string is replaced.
ClassicRound(string) == Flatten([i \in 1..Len(string) |-> ClassicSuccessor(string[i])])

RECURSIVE ClassicRewrite(_, _)
ClassicRewrite(string, rounds) ==
    IF rounds = 0 THEN string ELSE ClassicRewrite(ClassicRound(string), rounds - 1)

\* C1: for a system with only context-free single-character rules and no
\* '(' in its strings, generate(n) returns exactly the string n rounds of
\* synchronized parallel rewriting of the axiom give.
C1_GenerateIsParallelRewriting ==
    (Called /\ ContextFree) =>
        /\ generated.expanded
        /\ generated.result = ClassicRewrite(axiom, generated.generations)
        /\ Returned => to_string(generated.alphabet)
                          = ClassicRewrite(axiom, generated.generations)

C1_Witness ==
    /\ Returned /\ ContextFree
    /\ generated.generations = 2
    /\ DOMAIN stochastic_rules # {} /\ DOMAIN generic_stochastic_rules # {}
    /\ Len(to_string(generated.alphabet)) > Len(ClassicRound(axiom))
    /\ Len(ClassicRound(axiom)) > Len(axiom)

C3_UnmatchedSymbolIsKept ==
    \A e \in LogEvents :
        (e.kind \in {"stochastic", "context", "generic", "identity"}
            /\ ~e.matched /\ ~e.panicked)
        => e.emitted = <<e.symbol>>

\* The arguments of the module whose name is at `index` of chars: the chars
\* after the '(' up to the next ')', commas left out.
RECURSIVE ArgsFrom(_, _)
ArgsFrom(chars, index) ==
    IF index > Len(chars) - 1 \/ chars[index + 1] = ")" THEN <<>>
    ELSE IF chars[index + 1] = "," THEN ArgsFrom(chars, index + 1)
    ELSE <<chars[index + 1]>> \o ArgsFrom(chars, index + 1)

\* C4 (as claimed): the parametric callback of a symbol followed by '(' is
\* handed every argument between the '(' and the ')', in order, commas
\* excluded.
C4_CallbackGetsEveryArgument ==
    \A e \in LogEvents :
        (e.kind = "parametric" /\ e.invoked) => e.args = ArgsFrom(e.chars, e.index + 2)

\* C5 (as claimed): a context sensitive callback is invoked with the
\* symbol, its index in the buffer of the current call and that buffer, so
\* that buffer[index] is the symbol; when it matches, the symbol is replaced
\* by the successor expanded for generations - 1 more rounds.
C5_CallbackGetsSymbolAndItsIndex ==
    \A e \in LogEvents :
        e.kind = "context" =>
            /\ e.invoked
            /\ e.chars[e.index + 1] = e.symbol
            /\ e.matched =>
                 e.emitted = apply_rules_recursive(RulesOf(LSystemSelf), <<"A", "A">>,
                                                   e.generations_left - 1).out

\* The context sensitive callback of the symbol matches at the position of
\* the record.
CallbackMatches(e) ==
    /\ e.symbol \in DOMAIN context_sensitive_rules
    /\ LET cb == ContextSensitiveApply(context_sensitive_rules[e.symbol],
                                       e.symbol, e.index, e.chars)
       IN  ~cb.panic /\ cb.result.some

SymbolEvents == {e \in LogEvents : e.kind # "parametric"}

\* C6 (as claimed): a symbol with a context sensitive rule whose callback
\* matches and a generic rule gets the context sensitive successor, and the
\* generic rule is used only for symbols with no context sensitive rule.
C6_ContextBeforeGeneric ==
    \A e \in SymbolEvents :
        /\ (CallbackMatches(e) /\ <<e.symbol>> \in DOMAIN generic_stochastic_rules)
              => (e.kind = "context" /\ e.matched)
        /\ e.kind = "generic" => e.symbol \notin DOMAIN context_sensitive_rules

\* C6 (amended): the chain is char-keyed stochastic rule, then context
\* sensitive rule, then generic rule.  A symbol with no stochastic rule, a
\* context sensitive rule whose callback matches and a generic rule gets the
\* context sensitive successor; the generic rule is used only for symbols
\* with neither a stochastic nor a context sensitive rule.
C6_PrecedenceOrder ==
    \A e \in SymbolEvents :
        /\ (CallbackMatches(e) /\ <<e.symbol>> \in DOMAIN generic_stochastic_rules
               /\ e.symbol \notin DOMAIN stochastic_rules)
              => /\ e.kind = "context" /\ e.matched
                 /\ e.emitted = apply_rules_recursive(RulesOf(LSystemSelf), <<"A", "A">>,
                                                      e.generations_left - 1).out
        /\ e.kind = "generic" =>
              /\ e.symbol \notin DOMAIN context_sensitive_rules
              /\ e.symbol \notin DOMAIN stochastic_rules
              /\ e.emitted = apply_rules_recursive(RulesOf(LSystemSelf),
                                 generic_stochastic_rules[<<e.symbol>>].successor,
                                 e.generations_left - 1).out
        /\ (e.symbol \in DOMAIN stochastic_rules) => e.kind = "stochastic"

C6_Witness ==
    /\ Returned
    /\ \E e \in SymbolEvents :
          /\ e.kind = "context" /\ e.matched
          /\ <<e.symbol>> \in DOMAIN generic_stochastic_rules
    /\ \E e \in SymbolEvents : e.kind = "generic"

----------------------------------------------------------------------------
(* The claim about Alphabet::from_string.                                  *)

C7_WitnessFatal ==
    /\ new_alphabet.called /\ new_alphabet.panic
    /\ Len(string_arg) = 2 /\ Mapped(definition_arg, string_arg[1])

----------------------------------------------------------------------------
(* The claim about parameter expressions.                                  *)

IsOperand(token) == token.kind \in {"Number", "Ident"}
IsOperator(token) == token.kind = "Symbol" /\ token.char \in {"+", "-", "*", "/"}
IsComma(token) == token.kind = "Symbol" /\ token.char = ","

\* operand (operator operand)*
IsExpression(ts) ==
    /\ Len(ts) % 2 = 1
    /\ \A i \in 1..Len(ts) : IF i % 2 = 1 THEN IsOperand(ts[i]) ELSE IsOperator(ts[i])

\* the token runs between the commas
RECURSIVE SplitAtCommas(_, _)
SplitAtCommas(ts, run) ==
    IF ts = <<>> THEN <<run>>
    ELSE IF IsComma(Head(ts)) THEN <<run>> \o SplitAtCommas(Tail(ts), <<>>)
    ELSE SplitAtCommas(Tail(ts), Append(run, Head(ts)))

\* the position of the first ')' of the list
FirstClose(ts) ==
    CHOOSE i \in 1..Len(ts) :
        /\ ts[i] = TokenParam(")")
        /\ \A j \in 1..(i - 1) : ts[j] # TokenParam(")")

\* '(' expression (',' expression)* ')' ...
IsParamList(ts) ==
    /\ Len(ts) >= 3
    /\ ts[1] = TokenParam("(")
    /\ \E i \in 1..Len(ts) : ts[i] = TokenParam(")")
    /\ LET runs == SplitAtCommas(SubSeq(ts, 2, FirstClose(ts) - 1), <<>>)
       IN  \A i \in 1..Len(runs) : IsExpression(runs[i])

ExpressionsOf(ts) == SplitAtCommas(SubSeq(ts, 2, FirstClose(ts) - 1), <<>>)

LeafOf(token) ==
    IF token.kind = "Number" THEN [kind |-> "Number", value |-> token.number]
    ELSE [kind |-> "Constant", ident |-> token.ident]

OpOf(token) ==
    CASE token.char = "+" -> "Add" [] token.char = "-" -> "Sub"
      [] token.char = "*" -> "Mul" [] token.char = "/" -> "Div"

\* ((a op1 b) op2 c) ...
RECURSIVE LeftFold(_)
LeftFold(ts) ==
    IF Len(ts) = 1 THEN LeafOf(ts[1])
    ELSE [kind |-> "Expression", op |-> OpOf(ts[Len(ts) - 1]),
          lh |-> LeftFold(SubSeq(ts, 1, Len(ts) - 2)), rh |-> LeafOf(ts[Len(ts)])]

\* (a op1 (b op2 c)) ...
RECURSIVE RightNested(_)
RightNested(ts) ==
    IF Len(ts) = 1 THEN LeafOf(ts[1])
    ELSE [kind |-> "Expression", op |-> OpOf(ts[2]),
          lh |-> LeafOf(ts[1]), rh |-> RightNested(SubSeq(ts, 3, Len(ts)))]

ParsedList == module_parameters.called /\ IsParamList(lexed_tokens)

\* C8 (as claimed): an operand sequence a op1 b op2 c of a parameter list
\* is parsed to Binary(op2, Binary(op1, a, b), c), a fold from left to right.
C8_LeftToRightFold ==
    ParsedList =>
        /\ ~module_parameters.panic
        /\ \A i \in 1..Len(ExpressionsOf(lexed_tokens)) :
              Len(ExpressionsOf(lexed_tokens)[i]) = 5 =>
                  /\ i <= Len(module_parameters.params)
                  /\ module_parameters.params[i] = LeftFold(ExpressionsOf(lexed_tokens)[i])

\* C8 (amended): every parameter of a list is parsed without a panic to the
\* expression nested to the right: an operand sequence a op1 b op2 c gives
\* Binary(op1, a, Binary(op2, b, c)), whatever the operators are.
C8_RightNested ==
    ParsedList =>
        /\ ~module_parameters.panic
        /\ Len(module_parameters.params) = Len(ExpressionsOf(lexed_tokens))
        /\ \A i \in 1..Len(ExpressionsOf(lexed_tokens)) :
              module_parameters.params[i] = RightNested(ExpressionsOf(lexed_tokens)[i])

\* 1*2+3 has been parsed, to 1*(2+3)
C8_Witness ==
    /\ module_parameters.called /\ ~module_parameters.panic
    /\ lexed_tokens = <<TokenParam("("), TokenNumber(1), TokenSymbol("*"), TokenNumber(2),
                        TokenSymbol("+"), TokenNumber(3), TokenParam(")")>>
    /\ module_parameters.params =
          <<[kind |-> "Expression", op |-> "Mul",
             lh |-> [kind |-> "Number", value |-> 1000],
             rh |-> [kind |-> "Expression", op |-> "Add",
                     lh |-> [kind |-> "Number", value |-> 2000],
                     rh |-> [kind |-> "Number", value |-> 3000]]]>>

----------------------------------------------------------------------------
(* The claims about the transform stack.                                   *)

\* the turtle and the depth of the stack once step j is done
TurtleAfter(j) == IF j < Len(trace) THEN trace[j + 1].turtle ELSE turtle
DepthAfter(j) == IF j < Len(trace) THEN trace[j + 1].depth ELSE Len(transform_stack)

\* steps i .. i+2k-1 are k pushes and then k pops
PushesThenPops(i, k) ==
    /\ i + 2 * k - 1 <= Len(trace)
    /\ \A j \in i..(i + k - 1) : trace[j].action = "PushTranformToStackAction"
    /\ \A j \in (i + k)..(i + 2 * k - 1) : trace[j].action = "PopTransformFromStackAction"

\* C9: whatever the turtle and the stack are, k pushes followed by k pops
\* end without a panic, with the turtle (rotation, scale, origin) and the
\* depth of the stack they started with.
C9_PushesThenPopsRestore ==
    \A i \in 1..Len(trace), k \in 1..Len(trace) :
        PushesThenPops(i, k) =>
            /\ ~(aborted /\ i + 2 * k - 1 = Len(trace))
            /\ TurtleAfter(i + 2 * k - 1) = trace[i].turtle
            /\ DepthAfter(i + 2 * k - 1) = trace[i].depth

\* a moved and turned turtle was saved on a stack that held an older one,
\* and restored
C9_Witness ==
    /\ Len(trace) = 4
    /\ trace[1].action = "PushTranformToStackAction"
    /\ trace[2].action = "MoveForward"
    /\ PushesThenPops(3, 1)
    /\ turtle = trace[3].turtle /\ turtle # trace[1].turtle
    /\ Len(transform_stack) = 1

\* two pushes and two pops of a turtle that is not the default one
C9_WitnessNested ==
    /\ PushesThenPops(1, 2)
    /\ turtle # TurtleNew /\ turtle = trace[1].turtle
    /\ transform_stack = <<>> /\ ~aborted

\* C10: a pop on the empty stack is fatal: the run ends at that step, the
\* turtle gets no value from it and no default pose.
C10_PopOnEmptyIsFatal ==
    \A j \in 1..Len(trace) :
        (trace[j].action = "PopTransformFromStackAction" /\ trace[j].depth = 0) =>
            /\ aborted
            /\ j = Len(trace)
            /\ turtle = trace[j].turtle
            /\ transform_stack = <<>>

\* a pop on the stack that a push and a pop left empty
C10_Witness ==
    /\ aborted
    /\ Len(trace) = 4
    /\ trace[1].action = "MoveForward"
    /\ PushesThenPops(2, 1)
    /\ trace[4].action = "PopTransformFromStackAction" /\ trace[4].depth = 0
    /\ turtle # TurtleNew

----------------------------------------------------------------------------
(* LSystem::run and ActionResolver.                                        *)

\* the ordered history of turtle snapshots of an ExecuteContext, if it has one
SnapshotsOf(a_context) ==
    IF "snapshot" \in DOMAIN a_context THEN Some(a_context.snapshot) ELSE None

\* C11 (as claimed): after every alphabet step run has appended one turtle
\* snapshot to the history of the context, so that after i steps the
\* history holds i snapshots, the last being the turtle after step i.
C11_SnapshotAfterEveryStep ==
    (run_index >= 1 /\ ~run_panic)
    => /\ SnapshotsOf(run_context).some
       /\ Len(SnapshotsOf(run_context).value) = run_index
       /\ SnapshotsOf(run_context).value[run_index] = run_context.turtle

\* The interpret binding of a symbol: the first (trigger, Action) pair of
\* the ordered list whose trigger is the symbol.
HasBinding(char) == \E i \in 1..Len(action_rules) : action_rules[i][1] = char

BindingOf(char) ==
    LET first == CHOOSE i \in 1..Len(action_rules) :
                    /\ action_rules[i][1] = char
                    /\ \A j \in 1..Len(action_rules) : action_rules[j][1] = char => i <= j
    IN  action_rules[first][2]

\* what the resolver answers for the symbol at position i of the alphabet
ResolvedAt(i) ==
    CallResolver(resolver, alphabet_arg[i], alphabet_arg[i].char,
                 BindingOf(alphabet_arg[i].char))

\* position i holds a Variable or Constant with a binding that the resolver
\* resolves to an action instance
Dispatches(i) ==
    /\ alphabet_arg[i].kind \in {"Variable", "Constant"}
    /\ HasBinding(alphabet_arg[i].char)
    /\ ~ResolvedAt(i).panic
    /\ ResolvedAt(i).some

\* the calls of execute expected for the positions from..upto, in order
RECURSIVE DispatchesIn(_, _)
DispatchesIn(from, upto) ==
    IF from > upto THEN <<>>
    ELSE (IF Dispatches(from)
          THEN <<[index |-> from, action |-> ResolvedAt(from).action]>>
          ELSE <<>>) \o DispatchesIn(from + 1, upto)

\* the context after the calls of execute, in order, on a context
RECURSIVE ExecuteAll(_, _)
ExecuteAll(calls, a_context) ==
    IF calls = <<>> THEN a_context
    ELSE ExecuteAll(Tail(calls), execute(Head(calls).action, a_context).context)

SkipsNext ==
    /\ ~run_panic
    /\ run_index < Len(alphabet_arg)
    /\ alphabet_arg[run_index + 1].kind \in {"Variable", "Constant"}
    /\ \/ ~HasBinding(alphabet_arg[run_index + 1].char)
       \/ /\ ~ResolvedAt(run_index + 1).panic
          /\ ~ResolvedAt(run_index + 1).some

\* C13: an alphabet step whose symbol has no interpret binding, or whose
\* binding the resolver resolves to no instance, goes on to the next
\* position without a panic and without a call of execute, and leaves the
\* turtle, the transform stack and the elements of the context as they were.
C13_SkippedStepLeavesContext ==
    [][(SkipsNext /\ <<run_index, run_panic>>' # <<run_index, run_panic>>)
        => /\ run_index' = run_index + 1
           /\ ~run_panic'
           /\ executed' = executed
           /\ run_context'.turtle = run_context.turtle
           /\ run_context'.transform_stack = run_context.transform_stack
           /\ run_context'.elements = run_context.elements]_vars

\* a step without binding and a step with an unresolved binding have been
\* skipped after steps that changed the turtle and the stack
C13_Witness ==
    /\ ~run_panic
    /\ run_index = Len(alphabet_arg)
    /\ run_context.turtle # TurtleNew
    /\ run_context.transform_stack # <<>>
    /\ \E i \in 2..run_index :
          /\ ~Dispatches(i)
          /\ alphabet_arg[i].kind \in {"Variable", "Constant"}
          /\ \E e \in 1..Len(executed) : executed[e].index < i

\* The Actions and trigger symbols resolve is asked about.
ProbeActions ==
    {ActionNew(A, params) :
        A \in {"MoveForward", "RotateXAction", "RotateZAction",
               "PushTranformToStackAction", "PopTransformFromStackAction"},
        params \in {<<>>, <<ActionParamNumber(F32(1))>>}}

ProbeTriggers ==
    {[kind |-> kind, char |-> char] :
        kind \in {"Variable", "Constant"}, char \in {"F", "+", "[", "]"}}
    \cup {[kind |-> "Module", char |-> char] : char \in {"a", "["}}

\* the calls of add_action_resolver made with a Variable or Constant
\* trigger of this character by a type of this name
RegistrationsOf(action_name, char) ==
    {i \in 1..Len(registered) :
        /\ registered[i][2].kind \in {"Variable", "Constant"}
        /\ registered[i][2].char = char
        /\ name(registered[i][1]) = action_name}

Maximum(S) == CHOOSE x \in S : \A y \in S : y <= x

\* C14: after any sequence of add_action_resolver calls, resolve gives None
\* for a trigger that is no Variable or Constant and for every pair
\* (action.name, trigger character) never registered, and for a registered
\* pair it gives what from_params of the type registered (last) under the
\* pair returns for that trigger and the params of the action.
C14_ResolveByNameAndTrigger ==
    resolver.kind = "ActionResolver"
    => \A trigger \in ProbeTriggers, action \in ProbeActions :
          LET calls == RegistrationsOf(action.name, trigger.char)
              answer == resolve(resolver.actions, trigger, action)
          IN  IF trigger.kind = "Module" \/ calls = {}
              THEN ~answer.panic /\ ~answer.some
              ELSE LET last == registered[Maximum(calls)]
                   IN  answer = from_params(last[1], last[2], action.params)

C14_Witness ==
    /\ resolver.kind = "ActionResolver"
    /\ Len(registered) = 2
    /\ registered[1][2].char # registered[2][2].char
    /\ name(registered[1][1]) = name(registered[2][1])
    /\ registered[1][1] # registered[2][1]
    /\ \E trigger \in ProbeTriggers, action \in ProbeActions :
          /\ resolve(resolver.actions, trigger, action).some
          /\ resolve(resolver.actions, [trigger EXCEPT !.char = "F"], action).some = FALSE

----------------------------------------------------------------------------
(* Lexer::lex and parse of a script.                                       *)

Lexed == lex_result.status = "done" /\ ~lex_result.panic
ParseCalled == parse_result.status = "done"
ParseReturned == ParseCalled /\ ~parse_result.panic

HasStatement(texts) ==
    \E i \in 1..Len(script_parts.statements) : script_parts.statements[i] \in texts

\* C15 (as claimed): parse of a script with a replace statement that lacks
\* the keyword `by` ('replace F;', 'replace F +G;') is fatal; no Replace
\* statement is returned for it.
C15_ReplaceWithoutByIsFatal ==
    (ParseCalled /\ HasStatement({StmtReplaceNoBy, StmtReplaceNoBySuccessor}))
    => parse_result.panic

\* C16 (as claimed): parse returns an Item only for a script whose
\* statements stand between a '{' after the name and a closing '}'; a block
\* that is not closed when the tokens end is fatal.
C16_BlockMustBeEnclosed ==
    ParseReturned => (script_parts.head = HeadBlock /\ script_parts.end = EndBlock)

\* what the statements of a well-formed script are parsed to
NumberParam(n) == ActionParamNumber(F32(n))

ExpectedStatement(text) ==
    CASE text = StmtLet -> StatementDefineVariable
      [] text = StmtAxiom -> StatementAxiom(<<"F">>)
      [] text = StmtReplace -> StatementReplace(<<"F">>, <<"F", "+", "G">>)
      [] text = StmtInterpretAdd ->
            StatementInterpret(<<"F">>,
                ActionNew(<<"R">>, <<BinaryExpr("Add", NumberParam(1), NumberParam(2))>>))

WellFormed == {StmtLet, StmtAxiom, StmtReplace, StmtInterpretAdd}

\* C17 (as claimed): a block with the statement 'let x = 5;' followed by
\* other statements parses to an Item whose statements are a DefineVariable
\* for the let statement and the other statements, in source order.
C17_LetStatementIsParsed ==
    (/\ ParseCalled
     /\ script_parts.head = HeadBlock /\ script_parts.end = EndBlock
     /\ Len(script_parts.statements) >= 2
     /\ script_parts.statements[1] = StmtLet
     /\ \A i \in 1..Len(script_parts.statements) : script_parts.statements[i] \in WellFormed)
    => /\ ~parse_result.panic
       /\ parse_result.item.statements =
              [i \in 1..Len(script_parts.statements) |->
                  ExpectedStatement(script_parts.statements[i])]

\* C18 (as claimed): an interpret statement with more than one trigger
\* symbol before `as`, written 'A B' or 'AB', is fatal, and every Interpret
\* statement of a parsed Item has a trigger of one character.
C18_OneTriggerSymbol ==
    /\ (ParseCalled /\ HasStatement({StmtInterpretTwo, StmtInterpretAdjacent}))
       => parse_result.panic
    /\ ParseReturned
       => \A i \in 1..Len(parse_result.item.statements) :
             parse_result.item.statements[i].kind = "Interpret"
             => Len(parse_result.item.statements[i].trigger) = 1

\* the BinOpKind of the other operators (abs.rs:90-98, 108-116)
OtherBinOpKind(op) ==
    CASE op = "%" -> "Rem" [] op = "^" -> "BitXor" [] op = "&" -> "BitAnd"
      [] op = "|" -> "BitOr" [] op = "<" -> "Lt" [] op = ">" -> "Gt"

\* C19 (as claimed): 'interpret F as R(1 op 2);' with op one of % ^ & | < >
\* is lexed and parsed to a Binary node of the BinOpKind of op, and only the
\* evaluation of that node by ParamsResolver is fatal.
C19_OtherOperatorsAreParsed ==
    (/\ script_parts.head = HeadBlock /\ script_parts.end = EndBlock
     /\ Len(script_parts.statements) = 1
     /\ \E op \in OtherOperators : script_parts.statements[1] = StmtInterpretOp(op))
    => /\ lex_result.status = "done" => ~lex_result.panic
       /\ ParseCalled
          => /\ ~parse_result.panic
             /\ \E op \in OtherOperators :
                   LET node == BinaryExpr(OtherBinOpKind(op), NumberParam(1), NumberParam(2))
                   IN  /\ script_parts.statements[1] = StmtInterpretOp(op)
                       /\ parse_result.item.statements =
                              <<StatementInterpret(<<"F">>, ActionNew(<<"R">>, <<node>>))>>
                       /\ action_param(node).panic

\* the text of the tokens, one after the other
TokensText(tokens) == Flatten([i \in 1..Len(tokens) |-> token_to_string(tokens[i])])

\* C20 (as claimed): for every script that is lexed, the to_string texts of
\* the tokens, Space tokens included, put together in order are the script.
C20_LexingIsLossless ==
    Lexed => TokensText(lex_result.tokens) = script_arg

\* a number written as f32 prints it: no leading zero before another digit,
\* and a fraction part, if any, of digits that do not end in 0
PlainNumber(text) ==
    /\ text # <<>>
    /\ \A i \in 1..Len(text) : text[i] \in Digits \cup {"."}
    /\ Cardinality({i \in 1..Len(text) : text[i] = "."}) <= 1
    /\ text[1] \in Digits
    /\ text[Len(text)] # "."
    /\ (Len(text) >= 2 /\ text[1] = "0") => text[2] = "."
    /\ (\E i \in 1..Len(text) : text[i] = ".") => text[Len(text)] # "0"

\* the literal that starts at position i: the digits and '.' from there on
LiteralAt(text, i) ==
    LET last == CHOOSE j \in i..Len(text) :
                    /\ \A k \in i..j : text[k] \in Digits \cup {"."}
                    /\ (j < Len(text) => text[j + 1] \notin Digits \cup {"."})
    IN  SubSeq(text, i, last)

PlainlyWritten(text) ==
    /\ \A i \in 1..Len(text) : whitespace_regex(text[i]) => text[i] = " "
    /\ \A i \in 1..Len(text) :
          (text[i] \in Digits /\ (i = 1 \/ text[i - 1] \notin Digits \cup {"."}))
          => PlainNumber(LiteralAt(text, i))

\* C20 (amended): for every script that is lexed, whose whitespace is made
\* of ' ' characters only and whose numbers are written as f32 prints them,
\* the to_string texts of the tokens put together in order are the script.
C20_LosslessForPlainScripts ==
    (Lexed /\ PlainlyWritten(script_arg)) => TokensText(lex_result.tokens) = script_arg

C20_Witness ==
    /\ Lexed
    /\ PlainlyWritten(script_arg)
    /\ TokensText(lex_result.tokens) = script_arg
    /\ \E i, j, k \in 1..Len(lex_result.tokens) :
          /\ lex_result.tokens[i].kind = "Space"
          /\ lex_result.tokens[j].kind = "Number"
          /\ lex_result.tokens[k].kind = "Ident" /\ Len(lex_result.tokens[k].ident) >= 2

----------------------------------------------------------------------------
(* The tokens of whitespace and of single characters.                      *)

\* the lengths of the maximal runs of elements of seq that satisfy Is, in
\* order
RECURSIVE RunLengths(_, _, _)
RunLengths(seq, Is(_), run) ==
    IF seq = <<>> THEN (IF run = 0 THEN <<>> ELSE <<run>>)
    ELSE IF Is(Head(seq)) THEN RunLengths(Tail(seq), Is, run + 1)
    ELSE (IF run = 0 THEN <<>> ELSE <<run>>) \o RunLengths(Tail(seq), Is, 0)

IsSpaceToken(token) == token.kind = "Space"

\* C21 (as claimed): for every script that is lexed, each maximal run of
\* whitespace characters gives exactly one Space token: there are as many
\* Space tokens as runs, and no Space token follows another.
C21_OneSpacePerRun ==
    Lexed => RunLengths(lex_result.tokens, IsSpaceToken, 0)
             = [i \in 1..Len(RunLengths(script_arg, whitespace_regex, 0)) |-> 1]

\* C21 (amended): for every script that is lexed, each whitespace character
\* gives exactly one Space token: a maximal run of n whitespace characters
\* gives n Space tokens in a row, run by run in the order of the script.
C21_OneSpacePerChar ==
    Lexed => RunLengths(lex_result.tokens, IsSpaceToken, 0)
             = RunLengths(script_arg, whitespace_regex, 0)

C21_Witness ==
    /\ Lexed
    /\ \E i \in 1..(Len(script_arg) - 1) :
          /\ whitespace_regex(script_arg[i]) /\ whitespace_regex(script_arg[i + 1])
          /\ script_arg[i] # script_arg[i + 1]
    /\ \E i \in 1..(Len(lex_result.tokens) - 1) :
          IsSpaceToken(lex_result.tokens[i]) /\ IsSpaceToken(lex_result.tokens[i + 1])
    /\ \E i \in 1..Len(lex_result.tokens) : ~IsSpaceToken(lex_result.tokens[i])

\* the characters of the script that are not ' '
NonBlank(text) == SelectSeq(text, LAMBDA char : char # " ")

\* C22 (as claimed): lex of a script in which characters of + - * / > < & |
\* \ ^ = . stand on their own (alone, or separated by a space) returns, and
\* its tokens other than Space are the Symbol tokens of these characters, in
\* order.
C22_SingleCharactersAreSymbols ==
    (lex_result.status = "done" /\ script_arg \in SymbolTexts)
    => /\ ~lex_result.panic
       /\ SelectSeq(lex_result.tokens, LAMBDA token : ~IsSpaceToken(token))
          = [i \in 1..Len(NonBlank(script_arg)) |-> TokenSymbol(NonBlank(script_arg)[i])]

----------------------------------------------------------------------------
(* The LSystem of a script and the LSystem built by hand.                  *)

BothGenerated ==
    /\ parser_lsystem.status = "built" /\ builder_lsystem.status = "built"
    /\ parser_lsystem.generated # NotYet /\ builder_lsystem.generated # NotYet
    /\ parser_lsystem.generated.generations = builder_lsystem.generated.generations

\* what generate gave to its caller: a panic, or the Alphabet
Outcome(a_generated) ==
    [status |-> a_generated.status,
     alphabet |-> IF a_generated.status = "returned" THEN a_generated.alphabet
                  ELSE <<>>]

----------------------------------------------------------------------------
(* Runs with Random parameters.                                            *)

\* C24 (as claimed): two runs of the same action rules over the same
\* alphabet, each on a fresh context, draw the same sequence of random
\* values and return contexts with the same turtle.
C24_RandomRunsAgree ==
    (Len(random_runs) = 2 /\ ~random_runs[1].panic /\ ~random_runs[2].panic)
    => /\ random_runs[1].draws = random_runs[2].draws
       /\ random_runs[1].context.turtle = random_runs[2].context.turtle

----------------------------------------------------------------------------
(* The scan of a buffer with a parametric module.                          *)

HasModule(chars) == \E i \in 1..Len(chars) : chars[i] = "("
ModuleClosed(chars) == \E i \in 1..Len(chars) : chars[i] = ")"
OpenAt(chars) == CHOOSE i \in 1..Len(chars) : chars[i] = "("
CloseAt(chars) == CHOOSE i \in 1..Len(chars) : chars[i] = ")"

\* the symbols before the name of the module, and those after its ')'
BeforeModule(chars) == SubSeq(chars, 1, OpenAt(chars) - 2)
AfterModule(chars) == SubSeq(chars, CloseAt(chars) + 1, Len(chars))

\* C25 (as claimed): generate of a system without any rule, for one
\* generation or more, on an axiom with a module x(args) of one argument
\* or more, returns, and the
\* expansion is the symbols before the module followed by the symbols
\* after its ')': every symbol after the module is there, and the name of
\* the module is not appended as a plain symbol.
C25_SymbolsAfterModuleAreRewritten ==
    (/\ Called
     /\ RuleCount = 0
     /\ generated.generations >= 1
     /\ HasModule(axiom) /\ ModuleClosed(axiom)
     /\ CloseAt(axiom) > OpenAt(axiom) + 1)
    => /\ generated.expanded
       /\ generated.result = BeforeModule(axiom) \o AfterModule(axiom)

----------------------------------------------------------------------------
(* Termination of generate.                                                *)

\* no more calls are in progress than generations + 1
DepthBound == Len(call_stack) <= scan_generations + 1

\* a call that is at the start of a turn of its loop has a scan index
\* greater than at the start of the turn before, and within its buffer;
\* the argument scan is past the start of the turn
IndexIncreases ==
    \A k \in 1..Len(call_stack) :
        /\ call_stack[k].at = "loop"
           => /\ call_stack[k].symbol_index > call_stack[k].last_head
              /\ call_stack[k].symbol_index <= Len(call_stack[k].symbols) - 1
        /\ call_stack[k].at \in {"params", "chain", "advance"}
           => call_stack[k].symbol_index >= call_stack[k].last_head

\* no step moves the scan index of a call back, and a turn of the argument
\* scan that does not end it moves the index forward
IndexNeverDecreases ==
    \A k \in 1..Len(call_stack) :
        k <= Len(call_stack')
        => /\ call_stack'[k].symbol_index >= call_stack[k].symbol_index
           /\ (call_stack[k].at = "params" /\ call_stack'[k].at = "params")
              => call_stack'[k].symbol_index > call_stack[k].symbol_index

Ended == scan_status \in {"returned", "panic"}

\* a run that has ended has what the recursion computes in one piece
ScanAgrees ==
    Ended => LET whole == apply_rules_recursive(scan_rules, scan_axiom, scan_generations)
             IN  /\ whole.panic <=> scan_status = "panic"
                 /\ ~whole.panic => string_result = whole.out

\* C26: generate terminates.  The calls of apply_rules_recursive in
\* progress are never more than generations + 1; the scan index of a call
\* grows from one turn of its loop to the next and never moves back; each
\* turn of the argument scan of a module moves the index forward, finds
\* the ')' or panics; and every run ends: it returns or panics.
C26_GenerateTerminates ==
    /\ [](DepthBound /\ IndexIncreases)
    /\ [][IndexNeverDecreases]_vars
    /\ <>Ended

\* a run that has returned what generate computes, after calls as deep as
\* generations + 1 and the scan of a module
C26_Witness ==
    /\ scan_status = "returned"
    /\ scan_generations = MaxGen
    /\ HasModule(scan_axiom)
    /\ DOMAIN scan_rules.grammar_rules # {}
    /\ Len(string_result) > Len(scan_axiom)
    /\ string_result = apply_rules_recursive(scan_rules, scan_axiom, scan_generations).out

----------------------------------------------------------------------------
(* The transform stack is last in, first out.                              *)

\* the pushes and the pops among the steps a..b
PushesIn(a, b) ==
    Cardinality({m \in a..b : trace[m].action = "PushTranformToStackAction"})
PopsIn(a, b) ==
    Cardinality({m \in a..b : trace[m].action = "PopTransformFromStackAction"})

\* no step popped a stack on which every push had been popped already
NeverPopsEmpty == \A m \in 1..Len(trace) : PushesIn(1, m) >= PopsIn(1, m)

\* step i is the most recent push that is not yet popped when step j pops:
\* the pushes between them are all popped between them
MostRecentPush(i, j) ==
    /\ i < j
    /\ trace[i].action = "PushTranformToStackAction"
    /\ trace[j].action = "PopTransformFromStackAction"
    /\ PushesIn(i + 1, j - 1) = PopsIn(i + 1, j - 1)
    /\ \A m \in (i + 1)..(j - 1) : PushesIn(i + 1, m) >= PopsIn(i + 1, m)

\* C27: in a run of push, pop, forward and rotate actions that never pops
\* an empty stack nothing panics, each pop sets the turtle to the value it
\* had at the most recent push not yet popped, whatever ran in between,
\* and after every step the depth of the stack is the number of pushes
\* minus the number of pops so far.
C27_StackIsLastInFirstOut ==
    NeverPopsEmpty =>
        /\ ~aborted
        /\ \A i \in 1..Len(trace), j \in 1..Len(trace) :
               MostRecentPush(i, j) => TurtleAfter(j) = trace[i].turtle
        /\ \A j \in 1..Len(trace) :
               DepthAfter(j) = DepthAfter(0) + PushesIn(1, j) - PopsIn(1, j)
        /\ \A j \in 1..Len(trace) :
               trace[j].action = "PopTransformFromStackAction"
               => \E i \in 1..Len(trace) : MostRecentPush(i, j)

\* two turtles that differ were pushed; the pop gave the later one back and
\* left the earlier one on the stack
C27_Witness ==
    /\ NeverPopsEmpty
    /\ Len(trace) = 4
    /\ trace[1].action = "PushTranformToStackAction"
    /\ trace[2].action = "RotateZAction"
    /\ MostRecentPush(3, 4)
    /\ turtle = trace[3].turtle /\ turtle # trace[1].turtle
    /\ transform_stack = <<trace[1].turtle>>

----------------------------------------------------------------------------
(* Generic rules with a predecessor of more than one character.            *)

\* HashMap without the entry of a key
MapRemove(m, k) == [y \in (DOMAIN m) \ {k} |-> m[y]]

\* the system without the generic rule registered under `key`
WithoutGenericRule(key) ==
    [LSystemSelf EXCEPT !.generic_stochastic_rules = MapRemove(@, key)]

\* C28: a generic rule registered under a predecessor longer than one
\* character is never applied: whatever the axiom, the other rules and the
\* generations, generate gives what it gives without that rule (the same
\* expansion, the same Alphabet, the same panic).
C28_LongPredecessorNeverApplies ==
    Called =>
        \A key \in DOMAIN generic_stochastic_rules :
            Len(key) > 1 =>
                LET without == generate(WithoutGenericRule(key), generated.generations)
                IN  /\ without.status = generated.status
                    /\ without.result = generated.result
                    /\ without.alphabet = generated.alphabet

\* the axiom is the predecessor of the only rule, and it is left as it is
C28_Witness ==
    /\ generated.status = "returned" /\ generated.generations >= 1
    /\ DOMAIN generic_stochastic_rules = {<<"A", "B">>}
    /\ DOMAIN stochastic_rules = {} /\ DOMAIN context_sensitive_rules = {}
    /\ axiom = <<"A", "B">>
    /\ generated.result = axiom

----------------------------------------------------------------------------
(* The names of the actions of default_actions.rs.                         *)

DefaultActions ==
    {"RotateZAction", "RotateXAction", "RotateYAction",
     "PushTranformToStackAction", "PopTransformFromStackAction"}

\* the resolver holds an entry of action type A for the trigger character
Holds(A, char) ==
    \E key \in DOMAIN resolver.actions :
        key[2] = char /\ resolver.actions[key].type = A

\* C29: two different action types of default_actions have different
\* names, so that after both are registered, for the same trigger too, the
\* resolver holds an entry of each: neither overwrites the other.
C29_DefaultActionNamesAreDistinct ==
    \A i \in 1..Len(registered), j \in 1..Len(registered) :
        LET A == registered[i][1]
            B == registered[j][1]
        IN  (A \in DefaultActions /\ B \in DefaultActions /\ A # B)
            => /\ name(A) # name(B)
               /\ (/\ registered[i][2].kind \in {"Constant", "Variable"}
                   /\ registered[j][2].kind \in {"Constant", "Variable"}
                   /\ registered[i][2].char = registered[j][2].char)
                  => Holds(A, registered[i][2].char) /\ Holds(B, registered[j][2].char)

----------------------------------------------------------------------------
(* The cache of LSystemFactory.                                            *)

KeyOf(call) == LSystemKey(call.definition, call.generation)

\* call i is the first call of op that returned a value for its key
FirstFor(i, op) ==
    /\ factory_calls[i].op = op /\ factory_calls[i].returned.some
    /\ \A h \in 1..(i - 1) :
           ~(factory_calls[h].op = op /\ factory_calls[h].returned.some
             /\ KeyOf(factory_calls[h]) = KeyOf(factory_calls[i]))

\* C30: the factory caches by (name of the definition, generation).  A
\* render returns None exactly when no generate has returned for its key
\* before it.  The first generate of a key returns what LSystem::generate
\* computes for its definition, the first render of a key what
\* LSystem::execute computes for its definition, its pose and the cached
\* Alphabet, and every later call for the key returns the value of the
\* first one, whatever its definition, position, rotation and scale.
C30_FactoryKeepsFirstValue ==
    \A j \in 1..Len(factory_calls) :
        LET call == factory_calls[j]
            generated_before ==
                \E i \in 1..(j - 1) : /\ factory_calls[i].op = "generate"
                                      /\ factory_calls[i].returned.some
                                      /\ KeyOf(factory_calls[i]) = KeyOf(call)
        IN  /\ call.op = "render" => (call.returned.some <=> generated_before)
            /\ FirstFor(j, "generate")
               => call.returned.value = generate(call.definition.lsystem,
                                                 call.generation).alphabet
            /\ FirstFor(j, "render")
               => call.returned.value =
                      lsystem_execute(call.definition.actions, call.pose.position,
                                      call.pose.scale, call.pose.rotation,
                                      lsystems_alphabets[KeyOf(call)])
            /\ \A i \in 1..(j - 1) :
                   (FirstFor(i, call.op) /\ KeyOf(factory_calls[i]) = KeyOf(call))
                   => /\ call.returned.some
                      /\ call.returned.value = factory_calls[i].returned.value

\* after a generate a render gave elements, and a render of the same key
\* with another position, rotation and scale gave the same elements, not
\* the ones of its own pose
C30_Witness ==
    /\ Len(factory_calls) = 3
    /\ factory_calls[1].op = "generate" /\ factory_calls[1].generation = MaxGen
    /\ factory_calls[2].op = "render" /\ factory_calls[3].op = "render"
    /\ KeyOf(factory_calls[2]) = KeyOf(factory_calls[1])
    /\ KeyOf(factory_calls[3]) = KeyOf(factory_calls[1])
    /\ factory_calls[3].pose # factory_calls[2].pose
    /\ factory_calls[3].returned = factory_calls[2].returned
    /\ factory_calls[3].returned.value # <<>>
    /\ factory_calls[3].returned.value #
           lsystem_execute(factory_calls[3].definition.actions,
                           factory_calls[3].pose.position, factory_calls[3].pose.scale,
                           factory_calls[3].pose.rotation,
                           lsystems_alphabets[KeyOf(factory_calls[3])])

====
